---- MODULE Spec2Model ----
(***************************************************************************)
(* Conversation-history storage of TARVIS-LLM / jarvis-core                *)
(* (src/src/core/storage_manager.py): settings loader, LocalStorageManager,*)
(* GoogleDriveStorageManager and the storage factory.                      *)
(*                                                                         *)
(* Text is a sequence of symbols.  A symbol is a chunk of characters: the  *)
(* JSON punctuation and the characters that need escaping are symbols of   *)
(* their own, a run of ordinary characters ("sender", "token") is one      *)
(* symbol.  json.dump / json.loads are modelled on such text.              *)
(***************************************************************************)
EXTENDS Integers, Sequences, FiniteSets, TLC

VARIABLES
    current_storage_manager, \* the module global _current_storage_manager
    file,                    \* the local history file (self.filepath) on disk
    now,                     \* the last reading of datetime.now(); each reading is later
    file0,                   \* that file as it was when the store was constructed
    tokenFile,               \* the OAuth token file at self.token_path
    credsFile,               \* the client-secret file at self.credentials_path exists
    drive,                   \* the Drive account: folders and files the app can see
    settingsFile,            \* config/settings.json on disk
    instances,               \* how many store objects have been constructed
    calls,                   \* the save_message calls made so far, in order
    faults,                  \* how many I/O operations have failed so far
    threads,                 \* where each thread stands inside save_message
    last                     \* what the last operation did and returned

vars == <<current_storage_manager, file, now, file0, tokenFile, credsFile, drive,
          settingsFile, instances, calls, faults, threads, last>>

\* ------------------------------------------------------------------ bounds
MaxSaves == 2
MaxFaults == 1
MaxStores == 3

\* ------------------------------------------------------------- JSON values
\* Python values as json sees them; a dict is its list of (key, value)
\* pairs in insertion order, keys unique.
Str(s) == [t |-> "str", v |-> s]
Arr(xs) == [t |-> "arr", v |-> xs]
Obj(ps) == [t |-> "obj", v |-> ps]
Num(s) == [t |-> "num", v |-> s]
None == [t |-> "null", v |-> <<>>]

Ws == {" ", "\n"}
NumberSyms == {"0", "1", "2", "3"}

\* dict[k] = val: replaces in place, or appends a new key
RECURSIVE DictSetFrom(_, _, _, _)
DictSetFrom(ps, k, val, i) ==
    IF i > Len(ps) THEN Append(ps, <<k, val>>)
    ELSE IF ps[i][1] = k THEN [ps EXCEPT ![i] = <<k, val>>]
    ELSE DictSetFrom(ps, k, val, i + 1)

DictSet(ps, k, val) == DictSetFrom(ps, k, val, 1)

DictKeys(ps) == {ps[i][1] : i \in 1..Len(ps)}

\* dict[k], for a key that is present
DictGet(ps, k) == LET i == CHOOSE j \in 1..Len(ps) : ps[j][1] = k IN ps[i][2]

\* dict.update(other)
RECURSIVE DictUpdateFrom(_, _, _)
DictUpdateFrom(ps, other, i) ==
    IF i > Len(other) THEN ps
    ELSE DictUpdateFrom(DictSet(ps, other[i][1], other[i][2]), other, i + 1)

DictUpdate(ps, other) == DictUpdateFrom(ps, other, 1)

\* ------------------------------------------------------------- json.dump
RECURSIVE EscapeFrom(_, _)
EscapeFrom(s, i) ==
    IF i > Len(s) THEN <<>>
    ELSE (IF s[i] \in {"\"", "\\"} THEN <<"\\", s[i]>> ELSE <<s[i]>>)
            \o EscapeFrom(s, i + 1)

EncodeStr(s) == <<"\"">> \o EscapeFrom(s, 1) \o <<"\"">>

RECURSIVE JsonEncode(_), EncodeItems(_, _), EncodePairs(_, _)
\* json.dumps(val, indent=4, ensure_ascii=False); a line break with its
\* indentation is the one symbol "\n"
JsonEncode(val) ==
    CASE val.t = "str" -> EncodeStr(val.v)
      [] val.t = "num" -> val.v
      [] val.t = "null" -> <<"null">>
      [] val.t = "arr" ->
            IF val.v = <<>> THEN <<"[", "]">>
            ELSE <<"[", "\n">> \o EncodeItems(val.v, 1) \o <<"\n", "]">>
      [] val.t = "obj" ->
            IF val.v = <<>> THEN <<"{", "}">>
            ELSE <<"{", "\n">> \o EncodePairs(val.v, 1) \o <<"\n", "}">>

EncodeItems(xs, i) ==
    IF i = Len(xs) THEN JsonEncode(xs[i])
    ELSE JsonEncode(xs[i]) \o <<",", "\n">> \o EncodeItems(xs, i + 1)

EncodePairs(ps, i) ==
    LET one == EncodeStr(ps[i][1]) \o <<":", " ">> \o JsonEncode(ps[i][2])
    IN  IF i = Len(ps) THEN one
        ELSE one \o <<",", "\n">> \o EncodePairs(ps, i + 1)

\* ------------------------------------------------------------ json.loads
\* Each step of the parser hands what it has read to the next step.
ParseFail == [ok |-> FALSE, val |-> None, pos |-> 0]
ParseOk(val, pos) == [ok |-> TRUE, val |-> val, pos |-> pos]

RECURSIVE SkipWs(_, _)
SkipWs(txt, i) ==
    IF i <= Len(txt) /\ txt[i] \in Ws THEN SkipWs(txt, i + 1) ELSE i

\* the characters of a string literal, from position i (after the opening
\* quote) to the closing quote; a raw line break inside a literal is an error
RECURSIVE ParseString(_, _, _)
ParseString(txt, i, acc) ==
    IF i > Len(txt) THEN ParseFail
    ELSE IF txt[i] = "\"" THEN ParseOk(Str(acc), i + 1)
    ELSE IF txt[i] = "\\" THEN
        IF i + 1 <= Len(txt) /\ txt[i + 1] \in {"\"", "\\"}
        THEN ParseString(txt, i + 2, Append(acc, txt[i + 1]))
        ELSE ParseFail
    ELSE IF txt[i] = "\n" THEN ParseFail
    ELSE ParseString(txt, i + 1, Append(acc, txt[i]))

RECURSIVE ParseValue(_, _), ParseArrayAt(_, _), ParseElems(_, _, _), AfterElem(_, _, _),
          ElemSep(_, _, _), ParseObjectAt(_, _), ParseMembers(_, _, _), AfterKey(_, _, _),
          KeySep(_, _, _, _), AfterMember(_, _, _, _), MemberSep(_, _, _)

\* the value that starts at position i
ParseValue(txt, i) ==
    IF i > Len(txt) THEN ParseFail
    ELSE CASE txt[i] = "\"" -> ParseString(txt, i + 1, <<>>)
           [] txt[i] = "[" -> ParseArrayAt(txt, SkipWs(txt, i + 1))
           [] txt[i] = "{" -> ParseObjectAt(txt, SkipWs(txt, i + 1))
           [] txt[i] = "null" -> ParseOk(None, i + 1)
           [] txt[i] \in NumberSyms -> ParseOk(Num(<<txt[i]>>), i + 1)
           [] OTHER -> ParseFail

\* after "[": the closing bracket or the first element
ParseArrayAt(txt, j) ==
    IF j <= Len(txt) /\ txt[j] = "]" THEN ParseOk(Arr(<<>>), j + 1)
    ELSE ParseElems(txt, j, <<>>)

ParseElems(txt, i, acc) == AfterElem(txt, acc, ParseValue(txt, i))

AfterElem(txt, acc, r) ==
    IF ~r.ok THEN ParseFail ELSE ElemSep(txt, Append(acc, r.val), SkipWs(txt, r.pos))

ElemSep(txt, acc, j) ==
    IF j > Len(txt) THEN ParseFail
    ELSE IF txt[j] = "," THEN ParseElems(txt, SkipWs(txt, j + 1), acc)
    ELSE IF txt[j] = "]" THEN ParseOk(Arr(acc), j + 1)
    ELSE ParseFail

\* after "{": the closing brace or the first member
ParseObjectAt(txt, j) ==
    IF j <= Len(txt) /\ txt[j] = "}" THEN ParseOk(Obj(<<>>), j + 1)
    ELSE ParseMembers(txt, j, <<>>)

ParseMembers(txt, i, acc) ==
    IF i > Len(txt) \/ txt[i] # "\"" THEN ParseFail
    ELSE AfterKey(txt, acc, ParseString(txt, i + 1, <<>>))

AfterKey(txt, acc, k) ==
    IF ~k.ok THEN ParseFail ELSE KeySep(txt, acc, k.val.v, SkipWs(txt, k.pos))

KeySep(txt, acc, key, j) ==
    IF j > Len(txt) \/ txt[j] # ":" THEN ParseFail
    ELSE AfterMember(txt, acc, key, ParseValue(txt, SkipWs(txt, j + 1)))

AfterMember(txt, acc, key, r) ==
    IF ~r.ok THEN ParseFail
    ELSE MemberSep(txt, DictSet(acc, key, r.val), SkipWs(txt, r.pos))

MemberSep(txt, acc, m) ==
    IF m > Len(txt) THEN ParseFail
    ELSE IF txt[m] = "," THEN ParseMembers(txt, SkipWs(txt, m + 1), acc)
    ELSE IF txt[m] = "}" THEN ParseOk(Obj(acc), m + 1)
    ELSE ParseFail

\* nothing but white space may follow the value
WholeText(txt, r) == IF r.ok /\ SkipWs(txt, r.pos) > Len(txt) THEN r ELSE ParseFail

\* json.loads(txt): ok = FALSE stands for json.JSONDecodeError
JsonLoads(txt) == WholeText(txt, ParseValue(txt, SkipWs(txt, 1)))

\* s.endswith(suffix)
EndsWith(s, suffix) ==
    Len(s) >= Len(suffix) /\ SubSeq(s, Len(s) - Len(suffix) + 1, Len(s)) = suffix

\* not content.strip()
IsBlank(txt) == \A i \in 1..Len(txt) : txt[i] \in Ws

\* where a failing json.dump stops writing: at the start, half way, or
\* before the last symbol
CutAt(txt, cut) ==
    CASE cut = 0 -> 0
      [] cut = 1 -> Len(txt) \div 2
      [] OTHER -> Len(txt) - 1

\* ------------------------------------------------------------- exceptions
\* The outcome of a block of code: a value, or a raised exception.
Ret(val) == [exc |-> "none", val |-> val]
Raise(e) == [exc |-> e, val |-> <<>>]

\* the classes an `except Exception` clause catches
ExceptionClasses ==
    {"IOError", "JSONDecodeError", "UnicodeDecodeError", "TypeError", "ValueError",
     "AttributeError", "FileNotFoundError", "RefreshError", "HttpError", "OAuthError"}

\* the classes an `except IOError` clause catches (IOError is OSError)
IOErrorClasses == {"IOError", "FileNotFoundError"}

Absent == [exists |-> FALSE, text |-> <<>>]
OnDisk(txt) == [exists |-> TRUE, text |-> txt]

\* what open(path, "w") and json.dump leave on disk: writeFault is "none",
\* "open" (open raises, nothing is truncated) or "dump" (the dump raises
\* after CutAt symbols)
WriteFile(f, text, writeFault, cut) ==
    CASE writeFault = "open" -> [file |-> f, out |-> Raise("IOError")]
      [] writeFault = "dump" ->
            [file |-> OnDisk(SubSeq(text, 1, CutAt(text, cut))), out |-> Raise("IOError")]
      [] OTHER -> [file |-> OnDisk(text), out |-> Ret(None)]

\* ------------------------------------------------- load_settings, save_settings
Key(name) == <<name>>

TOKEN_JSON == <<"token", ".json">>
CREDENTIALS_JSON == <<"credentials", ".json">>

default_settings ==
    << <<Key("storage_mode"), Str(<<"local">>)>>,
       <<Key("local_storage_path"), None>>,
       <<Key("google_drive_credentials_file"), Str(CREDENTIALS_JSON)>>,
       <<Key("google_drive_token_file"), Str(TOKEN_JSON)>>,
       <<Key("google_drive_folder_name"), Str(<<"Jarvis-Core History">>)>>,
       <<Key("history_filename"), Str(<<"jarvis_chat_history", ".json">>)>>,
       <<Key("llm_model_path"), None>>,
       <<Key("system_prompt_path"), None>> >>

\* dict.get(k, default)
DictGetOr(ps, k, default) == IF k \in DictKeys(ps) THEN DictGet(ps, k) ELSE default

\* a replacement of the defaults by the file's dict, where the code merges
ReplaceWith(ps, val) ==
    IF val.t = "obj" THEN Ret(val.v) ELSE Raise("TypeError")

\* dict.update(val) for a value json.load returned: an object merges, an
\* empty list or string changes nothing, a list of [key, value] pairs
\* merges, anything else raises TypeError or ValueError
UpdateWith(ps, val) ==
    CASE val.t = "obj" -> Ret(DictUpdate(ps, val.v))
      [] val.t = "str" -> IF val.v = <<>> THEN Ret(ps) ELSE Raise("ValueError")
      [] val.t = "arr" ->
            IF \A i \in 1..Len(val.v) :
                    /\ val.v[i].t = "arr"
                    /\ Len(val.v[i].v) = 2
                    /\ val.v[i].v[1].t = "str"
            THEN Ret(DictUpdate(ps, [i \in 1..Len(val.v) |->
                                        <<val.v[i].v[1].v, val.v[i].v[2]>>]))
            ELSE Raise("TypeError")
      [] OTHER -> Raise("TypeError")

\* a settings layer that keeps the token file name it is given
TokenFileKept(ps, tf) ==
    IF tf.t # "str" THEN Raise("AttributeError") ELSE Ret(ps)

\* the value .endswith(".pickle") is asked of; a value that is no string
\* has no endswith
TokenFileFixed(ps, tf) ==
    IF tf.t # "str" THEN Raise("AttributeError")
    ELSE IF EndsWith(tf.v, <<".pickle">>)
        THEN Ret(DictSet(ps, Key("google_drive_token_file"), Str(TOKEN_JSON)))
    ELSE Ret(ps)

\* settings.get("google_drive_token_file", "").endswith(".pickle") and the
\* replacement of the value
FixTokenFile(ps) ==
    TokenFileFixed(ps, DictGetOr(ps, Key("google_drive_token_file"), Str(<<>>)))

\* after default_settings.update(loaded_settings)
LoadSettingsMerged(merged) ==
    IF merged.exc # "none" THEN merged ELSE FixTokenFile(merged.val)

\* after json.load(f)
LoadSettingsParsed(p) ==
    IF ~p.ok THEN Raise("JSONDecodeError")
    ELSE LoadSettingsMerged(UpdateWith(default_settings, p.val))

\* the try block of load_settings
LoadSettingsBody(sf, readFault) ==
    IF readFault # "none" THEN Raise(readFault)
    ELSE LoadSettingsParsed(JsonLoads(sf.text))

\* except (json.JSONDecodeError, IOError)
LoadSettingsHandlers(body) ==
    IF body.exc \in {"JSONDecodeError"} \cup IOErrorClasses
    THEN Ret(DictSet(default_settings, Key("google_drive_token_file"), Str(TOKEN_JSON)))
    ELSE body

\* load_settings() on settings file sf; readFault: what open()/read() raises
load_settings(sf, readFault) ==
    IF ~sf.exists THEN Ret(default_settings)
    ELSE LoadSettingsHandlers(LoadSettingsBody(sf, readFault))

\* the write of save_settings, once the token file name is fixed
SaveSettingsFixed(sf, fixed, writeFault, cut) ==
    IF fixed.exc # "none" THEN sf
    ELSE WriteFile(sf, JsonEncode(Obj(fixed.val)), writeFault, cut).file

\* save_settings(settings): the file it leaves; both handlers only log
save_settings(sf, settings, writeFault, cut) ==
    SaveSettingsFixed(sf, FixTokenFile(settings), writeFault, cut)

\* ---------------------------------------------------- LocalStorageManager
USER_CONFIG_DIR == <<"~", "/", ".jarvis-core">>

\* Path(storage_path).resolve(): a relative path is put under the working
\* directory
Resolve(p) == IF p # <<>> /\ p[1] = "/" THEN p ELSE <<"/", "cwd", "/">> \o p

\* a Python value used as a condition
Truthy(val) == val.t \in {"str", "arr", "obj"} /\ val.v # <<>>

\* a constructor without the check for ".." in the path
HistoryDirUnchecked(storage_path, resolveOk) ==
    IF Truthy(storage_path) /\ storage_path.t = "str" /\ resolveOk
    THEN Resolve(storage_path.v)
    ELSE USER_CONFIG_DIR \o <<"/", "history">>

\* self.history_dir; resolveOk: resolve() did not raise
HistoryDir(storage_path, resolveOk) ==
    IF Truthy(storage_path)
    THEN IF storage_path.t = "str" /\ resolveOk
            /\ \A i \in 1..Len(storage_path.v) : storage_path.v[i] # ".."
         THEN Resolve(storage_path.v)
         ELSE USER_CONFIG_DIR \o <<"/", "history">>
    ELSE USER_CONFIG_DIR \o <<"/", "history">>

\* LocalStorageManager(filename, storage_path).  mkdir's failure is logged
\* and changes nothing here.
LocalStorageManager(id, filename, storage_path, resolveOk) ==
    [kind |-> "local", id |-> id, filename |-> filename,
     storage_path |-> storage_path,
     history_dir |-> HistoryDir(storage_path, resolveOk),
     filepath |-> HistoryDir(storage_path, resolveOk) \o <<"/">> \o filename]

\* datetime.now().isoformat() at clock reading t
IsoFormat(t) == <<"2025-05-01T", ToString(t)>>

\* the entry dict save_message builds
Entry(t, sender, message) ==
    Obj(<< <<Key("timestamp"), Str(IsoFormat(t))>>,
           <<Key("sender"), Str(sender)>>,
           <<Key("message"), Str(message)>> >>)

\* after json.loads(content): anything but a list reads as no history
LoadRawParsed(p) ==
    IF ~p.ok THEN Raise("JSONDecodeError")
    ELSE IF p.val.t # "arr" THEN Ret(<<>>)
    ELSE Ret(p.val.v)

\* the try block of _load_raw_history
LoadRawBody(f, readFault) ==
    IF readFault # "none" THEN Raise(readFault)
    ELSE IF IsBlank(f.text) THEN Ret(<<>>)
    ELSE LoadRawParsed(JsonLoads(f.text))

\* handlers that leave out the closing `except Exception`
LoadRawOnlyNamedHandlers(body) ==
    IF body.exc \in {"JSONDecodeError"} \cup IOErrorClasses THEN Ret(<<>>) ELSE body

\* except (json.JSONDecodeError, IOError) and except Exception
LoadRawHandlers(body) ==
    IF body.exc \in {"JSONDecodeError"} \cup IOErrorClasses THEN Ret(<<>>)
    ELSE IF body.exc \in ExceptionClasses THEN Ret(<<>>)
    ELSE body

\* _load_raw_history on file f; readFault: the exception open()/read() raises
_load_raw_history(f, readFault) ==
    IF ~f.exists THEN Ret(<<>>)
    ELSE LoadRawHandlers(LoadRawBody(f, readFault))

\* a save that writes the new entry alone, without the history it loaded
LocalSaveOnlyEntry(f, loaded, entry, writeFault, cut) ==
    WriteFile(f, JsonEncode(Arr(<<entry>>)), writeFault, cut)

\* history.append(entry) and the dump of the whole list
LocalSaveBody(f, loaded, entry, writeFault, cut) ==
    IF loaded.exc # "none" THEN [file |-> f, out |-> loaded]
    ELSE WriteFile(f, JsonEncode(Arr(Append(loaded.val, entry))), writeFault, cut)

\* except IOError and except Exception: both only log
LocalSaveHandlers(body) ==
    IF body.out.exc \in IOErrorClasses \cup ExceptionClasses
    THEN [file |-> body.file, out |-> Ret(None)]
    ELSE body

\* LocalStorageManager.save_message: the file it leaves, and what it returns
LocalSaveMessage(f, t, sender, message, readFault, writeFault, cut) ==
    LocalSaveHandlers(LocalSaveBody(f, _load_raw_history(f, readFault),
                                    Entry(t, sender, message), writeFault, cut))

\* LocalStorageManager.load_history
LocalLoadHistory(f, readFault) == _load_raw_history(f, readFault)

\* the threads of the host application that call save_message
Threads == {"t1", "t2"}

\* a thread outside save_message; stamp: the datetime.now() of the entry it
\* built; history: the list it holds once it has read the file and appended
\* its entry; call: which save_message call it makes; written: its dump went
\* through; overlapped: it was inside save_message together with another
\* thread
IdleThread ==
    [pc |-> "idle", stamp |-> 0, history |-> <<>>, call |-> 0, written |-> FALSE,
     overlapped |-> FALSE]

NoThreads == [t \in Threads |-> IdleThread]

\* f.write at offset 0 of a file that another handle may have written since
\* this handle truncated it: the text replaces the head of the content
WriteOver(f, text) ==
    OnDisk(text \o (IF Len(f.text) > Len(text)
                    THEN SubSeq(f.text, Len(text) + 1, Len(f.text)) ELSE <<>>))

\* ---------------------------------------------- GoogleDriveStorageManager
\* is_safe_credential_path: a path holding ".." is refused; a relative path
\* resolves under PROJECT_ROOT and an absolute one is allowed
is_safe_credential_path(path_str) == \A i \in 1..Len(path_str) : path_str[i] # ".."

\* GoogleDriveStorageManager(credentials_file, token_file, filename, folder_name);
\* service = FALSE and file_id = 0 stand for None
GoogleDriveStorageManager(id, credentials_file, token_file, filename, folder_name) ==
    [kind |-> "gdrive", id |-> id,
     token_path |-> USER_CONFIG_DIR \o <<"/">> \o
                        (IF EndsWith(token_file, <<".pickle">>) THEN TOKEN_JSON ELSE token_file),
     credentials_path |-> IF is_safe_credential_path(credentials_file)
                          THEN credentials_file ELSE CREDENTIALS_JSON,
     filename |-> filename, folder_name |-> folder_name,
     service |-> FALSE, file_id |-> 0]

\* The states of the token file: missing, unparsable, or holding a credential
\* that is valid or expired, with or without a refresh token.
TokenStates == {"absent", "corrupt", "valid_rt", "valid_nort", "expired_rt", "expired_nort"}

NoCreds == [some |-> FALSE, valid |-> FALSE, expired |-> FALSE, refresh_token |-> FALSE]

\* Credentials.from_authorized_user_file on a readable token file
CredsOf(tok) ==
    [some |-> TRUE, valid |-> tok \in {"valid_rt", "valid_nort"},
     expired |-> tok \in {"expired_rt", "expired_nort"},
     refresh_token |-> tok \in {"valid_rt", "expired_rt"}]

\* the credential after creds.refresh(Request()) succeeded
Refreshed(creds) == [creds EXCEPT !.valid = TRUE, !.expired = FALSE]

\* the credential flow.run_local_server hands out
FlowCreds(answer) ==
    [some |-> TRUE, valid |-> TRUE, expired |-> FALSE, refresh_token |-> (answer = "ok_rt")]

\* creds.to_json() written to the token file
TokenOf(creds) == IF creds.refresh_token THEN "valid_rt" ELSE "valid_nort"

\* What the world answers to one call of the store: every network or file
\* operation succeeds or raises.
AllOk ==
    [refresh |-> TRUE, tokenWrite |-> "ok", unlink |-> TRUE, flow |-> "ok_rt",
     build |-> TRUE, listFolder |-> TRUE, createFolder |-> TRUE, listFile |-> TRUE,
     createFile |-> TRUE, download |-> TRUE, upload |-> TRUE]

OneFault(r) ==
    {[r EXCEPT !.refresh = FALSE], [r EXCEPT !.tokenWrite = "open"],
     [r EXCEPT !.tokenWrite = "write"], [r EXCEPT !.unlink = FALSE],
     [r EXCEPT !.flow = "FileNotFoundError"], [r EXCEPT !.flow = "OAuthError"],
     [r EXCEPT !.build = FALSE], [r EXCEPT !.listFolder = FALSE],
     [r EXCEPT !.createFolder = FALSE], [r EXCEPT !.listFile = FALSE],
     [r EXCEPT !.createFile = FALSE], [r EXCEPT !.download = FALSE],
     [r EXCEPT !.upload = FALSE]}

\* the answers with at most k failures; the interactive flow may hand out a
\* credential with or without a refresh token
RECURSIVE Responses(_)
Responses(k) ==
    IF k = 0 THEN {AllOk, [AllOk EXCEPT !.flow = "ok_nort"]}
    ELSE Responses(k - 1) \cup UNION {OneFault(r) : r \in Responses(k - 1)}

FaultCount(r) ==
    Cardinality({f \in DOMAIN r : r[f] # AllOk[f]} \ (IF r.flow = "ok_nort" THEN {"flow"} ELSE {}))

\* the write of creds.to_json() to the token file: a failure is logged; a
\* failed write leaves a truncated file
WriteToken(tok, creds, how) ==
    CASE how = "ok" -> TokenOf(creds)
      [] how = "open" -> tok
      [] how = "write" -> "corrupt"

NextDriveId(drv) == Len(drv.folders) + Len(drv.files) + 1

\* a resolver that creates a folder without asking for an existing one
FindAlwaysCreates(m, drv, r) ==
    IF ~m.service THEN [id |-> 0, drive |-> drv]
    ELSE IF ~r.createFolder THEN [id |-> 0, drive |-> drv]
    ELSE [id |-> NextDriveId(drv),
          drive |-> [drv EXCEPT !.folders = Append(@, NextDriveId(drv))]]

\* _find_or_create_folder: the folder id (0 for None) and the Drive after it
_find_or_create_folder(m, drv, r) ==
    IF ~m.service THEN [id |-> 0, drive |-> drv]
    ELSE IF ~r.listFolder THEN [id |-> 0, drive |-> drv]
    ELSE IF drv.folders # <<>> THEN [id |-> drv.folders[1], drive |-> drv]
    ELSE IF ~r.createFolder THEN [id |-> 0, drive |-> drv]
    ELSE [id |-> NextDriveId(drv),
          drive |-> [drv EXCEPT !.folders = <<NextDriveId(drv)>>]]

\* the files named self.filename in the folder, in listing order
FilesIn(drv, folder_id) == SelectSeq(drv.files, LAMBDA f : f.parent = folder_id)

\* a creation that does not keep the id of the new file
CreatedFileNoId(m, drv, folder_id, new) ==
    [m |-> m,
     drive |-> [drv EXCEPT !.files =
                    Append(@, [id |-> new, parent |-> folder_id, content |-> <<"[", "]">>])]]

\* files().create with the empty JSON array as content
CreatedFile(m, drv, folder_id, new) ==
    [m |-> [m EXCEPT !.file_id = new],
     drive |-> [drv EXCEPT !.files =
                    Append(@, [id |-> new, parent |-> folder_id, content |-> <<"[", "]">>])]]

\* _ensure_file_exists once the folder id fo.id is known
EnsureInFolder(m, r, fo) ==
    IF fo.id = 0 THEN [m |-> m, drive |-> fo.drive]
    ELSE IF ~r.listFile THEN [m |-> [m EXCEPT !.file_id = 0], drive |-> fo.drive]
    ELSE IF FilesIn(fo.drive, fo.id) # <<>>
        THEN [m |-> [m EXCEPT !.file_id = FilesIn(fo.drive, fo.id)[1].id], drive |-> fo.drive]
    ELSE IF ~r.createFile
        THEN [m |-> [m EXCEPT !.file_id = 0], drive |-> fo.drive]
    ELSE CreatedFile(m, fo.drive, fo.id, NextDriveId(fo.drive))

\* _ensure_file_exists: the store and the Drive after it
_ensure_file_exists(m, drv, r) ==
    IF ~m.service THEN [m |-> m, drive |-> drv]
    ELSE EnsureInFolder(m, r, _find_or_create_folder(m, drv, r))

\* What authenticate leaves and returns: the store, the token file, the
\* Drive, whether the interactive flow ran, and the boolean or exception.
AuthResult(m, tok, drv, flowRun, ret) ==
    [m |-> m, tok |-> tok, drive |-> drv, flowRun |-> flowRun, ret |-> ret]

\* self._ensure_file_exists() is done: return True
AuthEnsured(tok, flowRun, ens) == AuthResult(ens.m, tok, ens.drive, flowRun, Ret(TRUE))

\* if creds: build the service ... else: return False
AuthBuild(m, tok, drv, r, creds, flowRun) ==
    IF ~creds.some THEN AuthResult([m EXCEPT !.service = FALSE], tok, drv, flowRun, Ret(FALSE))
    ELSE IF ~r.build
        THEN AuthResult([m EXCEPT !.service = FALSE], tok, drv, flowRun, Ret(FALSE))
    ELSE AuthEnsured(tok, flowRun, _ensure_file_exists([m EXCEPT !.service = TRUE], drv, r))

\* save the new credentials if the token file is missing, re-auth is
\* forced, or the credential has no refresh token
AuthSaveNew(m, tok, drv, force_reauth, r, creds, flowRun) ==
    AuthBuild(m,
              IF creds.some /\ (tok = "absent" \/ force_reauth \/ ~creds.refresh_token)
              THEN WriteToken(tok, creds, r.tokenWrite) ELSE tok,
              drv, r, creds, flowRun)

\* an OAuth flow that does not look for the client-secret file first
AuthFlowNoCheck(m, tok, creds_exists, drv, force_reauth, r) ==
    IF r.flow \in {"ok_rt", "ok_nort"}
    THEN AuthSaveNew(m, tok, drv, force_reauth, r, FlowCreds(r.flow), TRUE)
    ELSE AuthResult(m, tok, drv, r.flow # "FileNotFoundError", Ret(FALSE))

\* an OAuth flow without the closing `except Exception`
AuthFlowNoCatch(m, tok, creds_exists, drv, force_reauth, r) ==
    IF ~creds_exists THEN AuthResult(m, tok, drv, FALSE, Ret(FALSE))
    ELSE IF r.flow = "FileNotFoundError" THEN AuthResult(m, tok, drv, FALSE, Ret(FALSE))
    ELSE IF r.flow \in {"ok_rt", "ok_nort"}
        THEN AuthSaveNew(m, tok, drv, force_reauth, r, FlowCreds(r.flow), TRUE)
    ELSE AuthResult(m, tok, drv, TRUE, Raise(r.flow))

\* the OAuth flow: each failure returns False at once and leaves
\* self.service as it was
AuthFlow(m, tok, creds_exists, drv, force_reauth, r) ==
    IF ~creds_exists THEN AuthResult(m, tok, drv, FALSE, Ret(FALSE))
    ELSE IF r.flow = "FileNotFoundError" THEN AuthResult(m, tok, drv, FALSE, Ret(FALSE))
    ELSE IF r.flow \in ExceptionClasses THEN AuthResult(m, tok, drv, TRUE, Ret(FALSE))
    ELSE IF r.flow \in {"ok_rt", "ok_nort"}
        THEN AuthSaveNew(m, tok, drv, force_reauth, r, FlowCreds(r.flow), TRUE)
    ELSE AuthResult(m, tok, drv, TRUE, Raise(r.flow))

\* a refresh that keeps the refreshed credential in memory only
AuthRefreshNoSave(m, tok, drv, force_reauth, r, creds) ==
    IF r.refresh
    THEN AuthSaveNew(m, tok, drv, force_reauth, r, Refreshed(creds), FALSE)
    ELSE AuthSaveNew(m, IF r.unlink THEN "absent" ELSE tok, drv,
                     force_reauth, r, NoCreds, FALSE)

\* a failed refresh that leaves the token file in place
AuthRefreshKeepsToken(m, tok, drv, force_reauth, r, creds) ==
    IF r.refresh
    THEN AuthSaveNew(m, WriteToken(tok, Refreshed(creds), r.tokenWrite), drv,
                     force_reauth, r, Refreshed(creds), FALSE)
    ELSE AuthSaveNew(m, tok, drv, force_reauth, r, NoCreds, FALSE)

\* creds.refresh(Request()): the refreshed token is saved; a failed refresh
\* drops the credential and deletes the token file
AuthRefresh(m, tok, drv, force_reauth, r, creds) ==
    IF r.refresh
    THEN AuthSaveNew(m, WriteToken(tok, Refreshed(creds), r.tokenWrite), drv,
                     force_reauth, r, Refreshed(creds), FALSE)
    ELSE AuthSaveNew(m, IF r.unlink THEN "absent" ELSE tok, drv,
                     force_reauth, r, NoCreds, FALSE)

\* if not creds or not creds.valid: refresh, or run the flow
AuthWithCreds(m, tok, creds_exists, drv, force_reauth, r, creds) ==
    IF creds.some /\ creds.valid THEN AuthBuild(m, tok, drv, r, creds, FALSE)
    ELSE IF creds.some /\ creds.expired /\ creds.refresh_token
        THEN AuthRefresh(m, tok, drv, force_reauth, r, creds)
    ELSE AuthFlow(m, tok, creds_exists, drv, force_reauth, r)

\* GoogleDriveStorageManager.authenticate(force_reauth) on store m, with token
\* file tok, client-secret file present or not, Drive drv and answers r
authenticate(m, tok, creds_exists, drv, force_reauth, r) ==
    AuthWithCreds(m, tok, creds_exists, drv, force_reauth, r,
                  IF ~force_reauth /\ tok # "absent" /\ tok # "corrupt"
                  THEN CredsOf(tok) ELSE NoCreds)

\* the file with id file_id, as get_media sees it
DriveFile(drv, file_id) == SelectSeq(drv.files, LAMBDA f : f.id = file_id)

\* after the download: the content parsed
DownloadParsed(p) ==
    IF ~p.ok THEN Raise("JSONDecodeError")
    ELSE IF p.val.t # "arr" THEN Ret(<<>>)
    ELSE Ret(p.val.v)

\* the try block of _download_history, on the files get_media finds
DownloadBody(mine, r) ==
    IF ~r.download \/ mine = <<>> THEN Raise("HttpError")
    ELSE IF IsBlank(mine[1].content) THEN Ret(<<>>)
    ELSE DownloadParsed(JsonLoads(mine[1].content))

\* except json.JSONDecodeError and except Exception
DownloadHandlers(body) ==
    IF body.exc = "JSONDecodeError" THEN Ret(<<>>)
    ELSE IF body.exc \in ExceptionClasses THEN Ret(<<>>)
    ELSE body

\* _download_history: the list it returns
_download_history(m, drv, r) ==
    IF ~m.service \/ m.file_id = 0 THEN Ret(<<>>)
    ELSE DownloadHandlers(DownloadBody(DriveFile(drv, m.file_id), r))

\* the outcome of the one authentication pass: go = FALSE when the call
\* gives up
Reauthenticated(a) ==
    [m |-> a.m, tok |-> a.tok, drive |-> a.drive,
     go |-> a.ret.exc = "none" /\ a.ret.val = TRUE /\ a.m.file_id # 0,
     exc |-> a.ret.exc, authCalls |-> 1]

\* a call that authenticates whether or not the session is there
ReauthenticateAlways(m, tok, creds_exists, drv, r) ==
    Reauthenticated(authenticate(m, tok, creds_exists, drv, FALSE, r))

\* if not self.service or not self.file_id: authenticate once
Reauthenticate(m, tok, creds_exists, drv, r) ==
    IF m.service /\ m.file_id # 0
    THEN [m |-> m, tok |-> tok, drive |-> drv, go |-> TRUE, exc |-> "none", authCalls |-> 0]
    ELSE Reauthenticated(authenticate(m, tok, creds_exists, drv, FALSE, r))

\* what a call on the Drive store leaves and returns
DriveResult(a, drv, ret) ==
    [m |-> a.m, tok |-> a.tok, drive |-> drv, authCalls |-> a.authCalls, ret |-> ret]

\* files().update(fileId, media_body): the content of the file is replaced
Uploaded(drv, file_id, text) ==
    [drv EXCEPT !.files =
        [i \in 1..Len(@) |->
            IF @[i].id = file_id THEN [@[i] EXCEPT !.content = text] ELSE @[i]]]

\* an upload of the new entry alone
DriveSaveOnlyEntry(a, r, history, entry) ==
    IF history.exc # "none" THEN [drive |-> a.drive, out |-> history]
    ELSE IF ~r.upload THEN [drive |-> a.drive, out |-> Raise("HttpError")]
    ELSE [drive |-> Uploaded(a.drive, a.m.file_id, JsonEncode(Arr(<<entry>>))),
          out |-> Ret(None)]

\* the try block of save_message: download, append, upload
DriveSaveBody(a, r, history, entry) ==
    IF history.exc # "none" THEN [drive |-> a.drive, out |-> history]
    ELSE IF ~r.upload THEN [drive |-> a.drive, out |-> Raise("HttpError")]
    ELSE [drive |-> Uploaded(a.drive, a.m.file_id,
                             JsonEncode(Arr(Append(history.val, entry)))),
          out |-> Ret(None)]

\* except Exception: the error is logged
DriveSaveHandlers(a, body) ==
    DriveResult(a, body.drive,
                IF body.out.exc \in ExceptionClasses THEN Ret(None) ELSE body.out)

\* save_message after the authentication pass a
DriveSaveAfterAuth(t, sender, message, r, a) ==
    IF a.exc # "none" THEN DriveResult(a, a.drive, Raise(a.exc))
    ELSE IF ~a.go THEN DriveResult(a, a.drive, Ret(None))
    ELSE DriveSaveHandlers(a, DriveSaveBody(a, r, _download_history(a.m, a.drive, r),
                                            Entry(t, sender, message)))

\* GoogleDriveStorageManager.save_message
DriveSaveMessage(m, tok, creds_exists, drv, t, sender, message, r) ==
    DriveSaveAfterAuth(t, sender, message, r, Reauthenticate(m, tok, creds_exists, drv, r))

\* a load that writes an empty history back
DriveLoadClears(r, a) ==
    IF a.exc # "none" THEN DriveResult(a, a.drive, Raise(a.exc))
    ELSE IF ~a.go THEN DriveResult(a, a.drive, Ret(<<>>))
    ELSE DriveResult(a, Uploaded(a.drive, a.m.file_id, <<"[", "]">>),
                     _download_history(a.m, a.drive, r))

\* load_history after the authentication pass a
DriveLoadAfterAuth(r, a) ==
    IF a.exc # "none" THEN DriveResult(a, a.drive, Raise(a.exc))
    ELSE IF ~a.go THEN DriveResult(a, a.drive, Ret(<<>>))
    ELSE DriveResult(a, a.drive, _download_history(a.m, a.drive, r))

\* GoogleDriveStorageManager.load_history
DriveLoadHistory(m, tok, creds_exists, drv, r) ==
    DriveLoadAfterAuth(r, Reauthenticate(m, tok, creds_exists, drv, r))

\* ------------------------------------------------------------ the factory
\* _current_storage_manager = None
NoManager == [kind |-> "none", id |-> 0]

\* settings.get(k, default), with the defaults the factory passes
Setting(ps, k) == DictGetOr(ps, Key(k), DictGet(default_settings, Key(k)))

\* What initialize_storage_manager leaves and returns: the global, the
\* number of stores constructed, the token file, the Drive, the value
\* returned or the exception, and what the call did on the way.
InitResult(cur, n, tok, drv, ret, read, settings, mode, auth) ==
    [cur |-> cur, n |-> n, tok |-> tok, drive |-> drv, ret |-> ret, read |-> read,
     settings |-> settings, mode |-> mode, auth |-> auth]

\* _current_storage_manager = manager; return manager
Installed(n, tok, drv, ps, manager, mode, auth) ==
    InitResult(manager, n, tok, drv, Ret(manager), TRUE, ps, mode, auth)

\* a fallback that forgets the configured local path
InitCloudDefaultPath(cur, n, resolveOk, ps, a) ==
    IF a.ret.exc # "none"
    THEN InitResult(cur, n + 1, a.tok, a.drive, Raise(a.ret.exc), TRUE, ps,
                    "google_drive", "raised")
    ELSE IF a.ret.val THEN Installed(n + 1, a.tok, a.drive, ps, a.m, "google_drive", "true")
    ELSE Installed(n + 2, a.tok, a.drive, ps,
                   LocalStorageManager(n + 2, Setting(ps, "history_filename").v, None,
                                       resolveOk),
                   "google_drive", "false")

\* if not manager.authenticate(): fall back to a local store
InitCloud(cur, n, resolveOk, ps, a) ==
    IF a.ret.exc # "none"
    THEN InitResult(cur, n + 1, a.tok, a.drive, Raise(a.ret.exc), TRUE, ps,
                    "google_drive", "raised")
    ELSE IF a.ret.val THEN Installed(n + 1, a.tok, a.drive, ps, a.m, "google_drive", "true")
    ELSE Installed(n + 2, a.tok, a.drive, ps,
                   LocalStorageManager(n + 2, Setting(ps, "history_filename").v,
                                       Setting(ps, "local_storage_path"), resolveOk),
                   "google_drive", "false")

\* a cloud branch that builds the Drive store with the default names
InitWithSettingsDefaultNames(cur, n, tok, creds_exists, drv, resolveOk, r, settings) ==
    IF settings.exc # "none"
    THEN InitResult(cur, n, tok, drv, Raise(settings.exc), TRUE, <<>>, "", "none")
    ELSE IF Setting(settings.val, "storage_mode") = Str(<<"google_drive">>)
    THEN InitCloud(cur, n, resolveOk, settings.val,
                   authenticate(
                       GoogleDriveStorageManager(n + 1, CREDENTIALS_JSON, TOKEN_JSON,
                           Setting(settings.val, "history_filename").v,
                           <<"Jarvis-Core History">>),
                       tok, creds_exists, drv, FALSE, r))
    ELSE Installed(n + 1, tok, drv, settings.val,
                   LocalStorageManager(n + 1, Setting(settings.val, "history_filename").v,
                                       Setting(settings.val, "local_storage_path"), resolveOk),
                   "local", "none")

\* a local branch that forgets the configured local path
InitWithSettingsDefaultLocal(cur, n, tok, creds_exists, drv, resolveOk, r, settings) ==
    IF settings.exc # "none"
    THEN InitResult(cur, n, tok, drv, Raise(settings.exc), TRUE, <<>>, "", "none")
    ELSE IF Setting(settings.val, "storage_mode") = Str(<<"google_drive">>)
    THEN InitCloud(cur, n, resolveOk, settings.val,
                   authenticate(
                       GoogleDriveStorageManager(n + 1,
                           Setting(settings.val, "google_drive_credentials_file").v,
                           Setting(settings.val, "google_drive_token_file").v,
                           Setting(settings.val, "history_filename").v,
                           Setting(settings.val, "google_drive_folder_name").v),
                       tok, creds_exists, drv, FALSE, r))
    ELSE Installed(n + 1, tok, drv, settings.val,
                   LocalStorageManager(n + 1, Setting(settings.val, "history_filename").v,
                                       None, resolveOk),
                   "local", "none")

\* the branch on storage_mode, once load_settings() returned
InitWithSettings(cur, n, tok, creds_exists, drv, resolveOk, r, settings) ==
    IF settings.exc # "none"
    THEN InitResult(cur, n, tok, drv, Raise(settings.exc), TRUE, <<>>, "", "none")
    ELSE IF Setting(settings.val, "storage_mode") = Str(<<"google_drive">>)
    THEN InitCloud(cur, n, resolveOk, settings.val,
                   authenticate(
                       GoogleDriveStorageManager(n + 1,
                           Setting(settings.val, "google_drive_credentials_file").v,
                           Setting(settings.val, "google_drive_token_file").v,
                           Setting(settings.val, "history_filename").v,
                           Setting(settings.val, "google_drive_folder_name").v),
                       tok, creds_exists, drv, FALSE, r))
    ELSE Installed(n + 1, tok, drv, settings.val,
                   LocalStorageManager(n + 1, Setting(settings.val, "history_filename").v,
                                       Setting(settings.val, "local_storage_path"), resolveOk),
                   "local", "none")

\* initialize_storage_manager(force_reinit) with _current_storage_manager = cur
initialize_storage_manager(cur, n, sf, tok, creds_exists, drv, force_reinit, readFault, resolveOk, r) ==
    IF cur.kind # "none" /\ ~force_reinit
    THEN InitResult(cur, n, tok, drv, Ret(cur), FALSE, <<>>, "", "none")
    ELSE InitWithSettings(cur, n, tok, creds_exists, drv, resolveOk, r,
                          load_settings(sf, readFault))

\* a factory that initializes on every call
GetAlwaysInitializes(cur, n, sf, tok, creds_exists, drv, readFault, resolveOk, r) ==
    initialize_storage_manager(cur, n, sf, tok, creds_exists, drv, TRUE,
                               readFault, resolveOk, r) @@ [initialized |-> TRUE]

\* get_storage_manager(): a failed initialization leaves the global None
get_storage_manager(cur, n, sf, tok, creds_exists, drv, readFault, resolveOk, r) ==
    IF cur.kind = "none"
    THEN initialize_storage_manager(cur, n, sf, tok, creds_exists, drv, FALSE,
                                    readFault, resolveOk, r) @@ [initialized |-> TRUE]
    ELSE InitResult(cur, n, tok, drv, Ret(cur), FALSE, <<>>, "", "none")
            @@ [initialized |-> FALSE]

\* ------------------------------------------------- one store in use (Spec)
HISTORY_FILENAME == <<"jarvis_chat_history", ".json">>
FOLDER_NAME == <<"Jarvis-Core History">>

\* one entry written by an earlier version, in compact form
OldEntryText ==
    <<"[", "{", "\"", "sender", "\"", ":", " ", "\"", "Old", "\"", ",", " ",
      "\"", "message", "\"", ":", " ", "\"", "Msg", "\"", "}", "]">>

\* history files found on disk when the store is constructed: missing, empty,
\* blank, not JSON, JSON that is no array, an empty array, one old entry
InitialFiles ==
    {Absent, OnDisk(<<>>), OnDisk(<<" ", "\n">>), OnDisk(<<"not", " ", "json">>),
     OnDisk(<<"{", "}">>), OnDisk(<<"[", "]">>),
     OnDisk(OldEntryText)}

EmptyDrive == [folders |-> <<>>, files |-> <<>>]

\* the Drive as found: nothing, the folder alone, the folder with a history
\* file that is empty, holds one old entry, or is not JSON
RemoteFile(content) == [id |-> 2, parent |-> 1, content |-> content]

InitialDrives ==
    {EmptyDrive,
     [folders |-> <<1>>, files |-> <<>>],
     [folders |-> <<1>>, files |-> <<RemoteFile(<<"[", "]">>)>>],
     [folders |-> <<1>>, files |-> <<RemoteFile(OldEntryText)>>],
     [folders |-> <<1>>, files |-> <<RemoteFile(<<"not", " ", "json">>)>>],
     [folders |-> <<1, 3>>,
      files |-> <<RemoteFile(<<"[", "]">>),
                  [id |-> 4, parent |-> 1, content |-> OldEntryText]>>]}

\* the (sender, message) pairs callers pass: plain text, and text holding a
\* quote, a backslash and JSON punctuation
SaveInputs ==
    {<<(<<"user">>), (<<"hi">>)>>,
     <<(<<"assistant">>), (<<"a", "\"", "]", "\\", ",">>)>>}

\* the failures of one local save or load: what the read raises, how the
\* write fails, where a failing dump stops
LocalFaults(k) ==
    {<<"none", "none", 0>>}
    \cup (IF k >= 1
          THEN {<<"IOError", "none", 0>>, <<"UnicodeDecodeError", "none", 0>>,
                <<"none", "open", 0>>, <<"none", "dump", 0>>, <<"none", "dump", 1>>,
                <<"none", "dump", 2>>}
          ELSE {})
    \cup (IF k >= 2
          THEN {<<"IOError", "open", 0>>, <<"IOError", "dump", 1>>}
          ELSE {})

LocalFaultCount(lf) ==
    (IF lf[1] # "none" THEN 1 ELSE 0) + (IF lf[2] # "none" THEN 1 ELSE 0)

Budget == IF faults >= MaxFaults THEN 0 ELSE MaxFaults - faults

\* The answers that can matter to a call: an operation the call cannot
\* reach is left to succeed.  asked: the operations the call may perform.
AuthAsks(tok, creds_exists, drv, force) ==
    LET refreshing == ~force /\ tok = "expired_rt"
        flowing == force \/ tok \in {"absent", "corrupt", "expired_nort"}
    IN  IF flowing /\ ~creds_exists THEN {}
        ELSE (IF refreshing THEN {"refresh", "unlink", "tokenWrite"} ELSE {})
             \cup (IF flowing THEN {"flow", "tokenWrite"} ELSE {})
             \cup {"build", "listFolder", "listFile"}
             \cup (IF drv.folders = <<>> THEN {"createFolder"} ELSE {})
             \cup (IF drv.files = <<>> THEN {"createFile"} ELSE {})

CallAsks(m, tok, creds_exists, drv, own) ==
    IF m.service /\ m.file_id # 0 THEN own
    ELSE own \cup AuthAsks(tok, creds_exists, drv, FALSE)

Answers(asked) ==
    {r \in Responses(Budget) : \A f \in DOMAIN r : r[f] # AllOk[f] => f \in asked}

Init ==
    /\ \/ /\ current_storage_manager = LocalStorageManager(1, HISTORY_FILENAME, None, TRUE)
          /\ file \in InitialFiles
          /\ tokenFile = "absent"
          /\ credsFile = FALSE
          /\ drive = EmptyDrive
       \/ /\ current_storage_manager =
                GoogleDriveStorageManager(1, CREDENTIALS_JSON, TOKEN_JSON,
                                          HISTORY_FILENAME, FOLDER_NAME)
          /\ file = Absent
          /\ tokenFile \in TokenStates
          /\ credsFile \in BOOLEAN
          /\ drive \in InitialDrives
    /\ file0 = file
    /\ now = 0
    /\ settingsFile = Absent
    /\ instances = 1
    /\ calls = <<>>
    /\ faults = 0
    /\ threads = NoThreads
    /\ last = [op |-> "init"]

\* manager.save_message(sender, message) on a LocalStorageManager
LocalSave ==
    /\ current_storage_manager.kind = "local"
    /\ Len(calls) < MaxSaves
    /\ \E in \in SaveInputs, lf \in {x \in LocalFaults(Budget) : x[1] = "none" \/ file.exists} :
       \E s \in {LocalSaveMessage(file, now + 1, in[1], in[2], lf[1], lf[2], lf[3])} :
              /\ file' = s.file
              /\ now' = now + 1
              /\ calls' = Append(calls, [sender |-> in[1], message |-> in[2]])
              /\ faults' = faults + LocalFaultCount(lf)
              /\ last' = [op |-> "save", ret |-> s.out, before |-> file,
                          readFault |-> lf[1], writeFault |-> lf[2]]
    /\ UNCHANGED <<threads, current_storage_manager, file0, tokenFile, credsFile, drive,
                   settingsFile, instances>>

\* manager.load_history() on a LocalStorageManager
\* prev: the load_history call made just before this one, when there is
\* one: what it returned, and whether every I/O operation it made went
\* through (clean)
LocalLoad ==
    /\ current_storage_manager.kind = "local"
    /\ \E lf \in {x \in LocalFaults(Budget) : x[2] = "none" /\ (x[1] = "none" \/ file.exists)} :
          /\ faults' = faults + LocalFaultCount(lf)
          /\ last' = [op |-> "load", ret |-> LocalLoadHistory(file, lf[1]),
                      before |-> file, readFault |-> lf[1], writeFault |-> "none",
                      clean |-> lf[1] = "none",
                      prev |-> IF last.op = "load"
                               THEN [is |-> TRUE, ret |-> last.ret, clean |-> last.clean]
                               ELSE [is |-> FALSE, ret |-> Ret(<<>>), clean |-> FALSE]]
    /\ UNCHANGED <<threads, current_storage_manager, file, now, file0, tokenFile, credsFile,
                   drive, settingsFile, instances, calls>>

\* manager.authenticate(force_reauth) on a GoogleDriveStorageManager
DriveAuthenticate ==
    /\ current_storage_manager.kind = "gdrive"
    /\ \E force \in BOOLEAN :
       \E r \in Answers(AuthAsks(tokenFile, credsFile, drive, force)) :
       \E a \in {authenticate(current_storage_manager, tokenFile, credsFile, drive,
                             force, r)} :
              /\ current_storage_manager' = a.m
              /\ tokenFile' = a.tok
              /\ drive' = a.drive
              /\ faults' = faults + FaultCount(r)
              /\ last' = [op |-> "authenticate", ret |-> a.ret, force |-> force,
                          flowRun |-> a.flowRun, tok |-> tokenFile, r |-> r,
                          authCalls |-> 1, tokAfter |-> a.tok, driveBefore |-> drive,
                          wasReady |-> current_storage_manager.service
                                          /\ current_storage_manager.file_id # 0,
                          afterFailedRefresh |->
                              IF last.op = "authenticate" /\ ~last.force
                                    /\ last.tok = "expired_rt" /\ ~last.r.refresh
                              THEN (IF last.r.unlink THEN "deleted" ELSE "kept")
                              ELSE "no"]
    /\ UNCHANGED <<threads, file, now, file0, credsFile, settingsFile, instances, calls>>

\* manager.save_message(sender, message) on a GoogleDriveStorageManager
DriveSave ==
    /\ current_storage_manager.kind = "gdrive"
    /\ Len(calls) < MaxSaves
    /\ \E in \in SaveInputs,
          r \in Answers(CallAsks(current_storage_manager, tokenFile, credsFile, drive,
                                 {"download", "upload"})) :
       \E s \in {DriveSaveMessage(current_storage_manager, tokenFile, credsFile, drive,
                                 now + 1, in[1], in[2], r)} :
              /\ current_storage_manager' = s.m
              /\ tokenFile' = s.tok
              /\ drive' = s.drive
              /\ now' = now + 1
              /\ calls' = Append(calls, [sender |-> in[1], message |-> in[2]])
              /\ faults' = faults + FaultCount(r)
              /\ last' = [op |-> "save", ret |-> s.ret, force |-> FALSE,
                          flowRun |-> FALSE, tok |-> tokenFile,
                          download |-> r.download, upload |-> r.upload,
                          authCalls |-> s.authCalls, driveBefore |-> drive,
                          ready |-> s.m.service /\ s.m.file_id # 0,
                          wasReady |-> current_storage_manager.service
                                          /\ current_storage_manager.file_id # 0]
    /\ UNCHANGED <<threads, file, file0, credsFile, settingsFile, instances>>

\* manager.load_history() on a GoogleDriveStorageManager
DriveLoad ==
    /\ current_storage_manager.kind = "gdrive"
    /\ \E r \in Answers(CallAsks(current_storage_manager, tokenFile, credsFile, drive,
                                   {"download"})) :
       \E l \in {DriveLoadHistory(current_storage_manager, tokenFile, credsFile, drive, r)} :
              /\ current_storage_manager' = l.m
              /\ tokenFile' = l.tok
              /\ drive' = l.drive
              /\ faults' = faults + FaultCount(r)
              /\ last' = [op |-> "load", ret |-> l.ret, force |-> FALSE,
                          flowRun |-> FALSE, tok |-> tokenFile,
                          download |-> r.download, upload |-> TRUE,
                          authCalls |-> l.authCalls, driveBefore |-> drive,
                          ready |-> l.m.service /\ l.m.file_id # 0,
                          wasReady |-> current_storage_manager.service
                                          /\ current_storage_manager.file_id # 0,
                          clean |-> FaultCount(r) = 0,
                          prev |-> IF last.op = "load"
                                   THEN [is |-> TRUE, ret |-> last.ret,
                                         clean |-> last.clean]
                                   ELSE [is |-> FALSE, ret |-> Ret(<<>>),
                                         clean |-> FALSE]]
    /\ UNCHANGED <<threads, file, now, file0, credsFile, settingsFile, instances, calls>>

\* time passes: the access token in the token file expires
TokenExpires ==
    /\ tokenFile \in {"valid_rt", "valid_nort"}
    /\ tokenFile' = IF tokenFile = "valid_rt" THEN "expired_rt" ELSE "expired_nort"
    /\ UNCHANGED <<threads, current_storage_manager, file, now, file0, credsFile, drive,
                   settingsFile, instances, calls, faults, last>>

Next ==
    \/ LocalSave
    \/ LocalLoad
    \/ DriveAuthenticate
    \/ DriveSave
    \/ DriveLoad
    \/ TokenExpires

Spec == Init /\ [][Next]_vars

\* --------------------------------------------- the settings (SpecSettings)
\* settings.json as found on disk: missing; holding only storage_mode; the
\* old-format file of tests/test_settings_logic.py; a local configuration;
\* and files that are empty, not JSON, not an object, or hold a null token file
ModeOnlySettings == << <<Key("storage_mode"), Str(<<"google_drive">>)>> >>

OldSettings ==
    << <<Key("storage_mode"), Str(<<"google_drive">>)>>,
       <<Key("llm_model_path"), Str(<<"/", "custom", "/", "model.gguf">>)>>,
       <<Key("google_drive_token_file"), Str(<<"old_token", ".pickle">>)>>,
       <<Key("new_key"), Str(<<"new_value">>)>> >>

LocalSettings ==
    << <<Key("storage_mode"), Str(<<"local">>)>>,
       <<Key("local_storage_path"), Str(<<"/", "data">>)>>,
       <<Key("history_filename"), Str(<<"h", ".json">>)>> >>

CloudSettings ==
    << <<Key("storage_mode"), Str(<<"google_drive">>)>>,
       <<Key("local_storage_path"), Str(<<"/", "data">>)>>,
       <<Key("history_filename"), Str(<<"h", ".json">>)>>,
       <<Key("google_drive_credentials_file"), Str(<<"my_creds", ".json">>)>>,
       <<Key("google_drive_token_file"), Str(<<"my_token", ".json">>)>>,
       <<Key("google_drive_folder_name"), Str(<<"My History">>)>> >>

\* a storage_mode the program does not know
OtherModeSettings ==
    << <<Key("storage_mode"), Str(<<"dropbox">>)>>,
       <<Key("local_storage_path"), Str(<<"/", "data">>)>>,
       <<Key("history_filename"), Str(<<"h", ".json">>)>>,
       <<Key("google_drive_token_file"), Str(<<"my_token", ".json">>)>> >>

GoodSettingsFiles ==
    {Absent,
     OnDisk(JsonEncode(Obj(OtherModeSettings))),
     OnDisk(<<"{", "\"", "storage_mode", "\"", ":", " ", "\"", "google_drive", "\"", "}">>),
     OnDisk(JsonEncode(Obj(OldSettings))),
     OnDisk(JsonEncode(Obj(LocalSettings))),
     OnDisk(JsonEncode(Obj(CloudSettings))),
     OnDisk(<<"{", "}">>)}

BadSettingsFiles ==
    {OnDisk(<<>>),
     OnDisk(<<"invalid", " ", "json", " ", "data", "{">>),
     OnDisk(<<"[", "1", "]">>),
     OnDisk(<<"\"", "x", "\"">>),
     OnDisk(<<"{", "\"", "google_drive_token_file", "\"", ":", " ", "null", "}">>)}

SettingsFiles == GoodSettingsFiles \cup BadSettingsFiles

\* the dictionaries callers hand to save_settings
SavedSettings ==
    {DictUpdate(default_settings, OldSettings), DictUpdate(default_settings, LocalSettings),
     DictUpdate(default_settings, CloudSettings), ModeOnlySettings}

InitSettings ==
    /\ current_storage_manager = NoManager
    /\ file = Absent
    /\ file0 = Absent
    /\ now = 0
    /\ tokenFile = "absent"
    /\ credsFile = FALSE
    /\ drive = EmptyDrive
    /\ settingsFile \in SettingsFiles
    /\ instances = 0
    /\ calls = <<>>
    /\ faults = 0
    /\ threads = NoThreads
    /\ last = [op |-> "init"]

\* load_settings()
LoadSettings ==
    /\ \E lf \in {x \in LocalFaults(Budget) :
                        x[2] = "none" /\ (x[1] = "none" \/ settingsFile.exists)} :
          /\ faults' = faults + LocalFaultCount(lf)
          /\ last' = [op |-> "load_settings", ret |-> load_settings(settingsFile, lf[1]),
                      before |-> settingsFile, readFault |-> lf[1]]
    /\ UNCHANGED <<threads, current_storage_manager, file, now, file0, tokenFile, credsFile,
                   drive, settingsFile, instances, calls>>

\* save_settings(settings)
SaveSettings ==
    /\ \E settings \in SavedSettings, lf \in {x \in LocalFaults(Budget) : x[1] = "none"} :
       \E written \in {save_settings(settingsFile, settings, lf[2], lf[3])} :
          /\ settingsFile' = written
          /\ faults' = faults + LocalFaultCount(lf)
          /\ last' = [op |-> "save_settings", ret |-> Ret(None), readFault |-> "none",
                      arg |-> settings, writeFault |-> lf[2], before |-> settingsFile,
                      after |-> written]
    /\ UNCHANGED <<threads, current_storage_manager, file, now, file0, tokenFile, credsFile,
                   drive, instances, calls>>

\* the user edits settings.json by hand, or removes it
EditSettings ==
    /\ settingsFile' \in SettingsFiles \ {settingsFile}
    /\ UNCHANGED <<threads, current_storage_manager, file, now, file0, tokenFile, credsFile,
                   drive, instances, calls, faults, last>>

\* the token_file arguments callers pass to GoogleDriveStorageManager
TokenFileArgs ==
    {TOKEN_JSON, <<"my_token", ".json">>, <<"old_token", ".pickle">>, <<".pickle">>}

\* GoogleDriveStorageManager(token_file=...)
ConstructDrive ==
    /\ current_storage_manager.kind = "none"
    /\ \E tf \in TokenFileArgs :
          /\ current_storage_manager' =
                GoogleDriveStorageManager(instances + 1, CREDENTIALS_JSON, tf,
                                          HISTORY_FILENAME, FOLDER_NAME)
          /\ last' = [op |-> "construct_drive", ret |-> Ret(None), token_file |-> tf]
    /\ instances' = instances + 1
    /\ UNCHANGED <<threads, file, now, file0, tokenFile, credsFile, drive, settingsFile, calls,
                   faults>>

NextSettings == LoadSettings \/ SaveSettings \/ EditSettings \/ ConstructDrive

SpecSettings == InitSettings /\ [][NextSettings]_vars

\* ---------------------------------------------- the factory (SpecFactory)
InitFactory ==
    /\ current_storage_manager = NoManager
    /\ file = Absent
    /\ file0 = Absent
    /\ now = 0
    /\ tokenFile \in {"absent", "valid_rt", "expired_rt"}
    /\ credsFile \in BOOLEAN
    /\ drive \in {EmptyDrive, [folders |-> <<1>>, files |-> <<RemoteFile(<<"[", "]">>)>>]}
    /\ settingsFile \in SettingsFiles
    /\ instances = 0
    /\ calls = <<>>
    /\ faults = 0
    /\ threads = NoThreads
    /\ last = [op |-> "init"]

\* the failures one call of the factory can meet: reading settings.json
\* (when it exists), resolving the custom path, and the answers to
\* authenticate()
\* a call that returns the installed store meets none of them
FactoryAnswers(initializes) ==
    IF ~initializes THEN {<<"none", TRUE, AllOk>>}
    ELSE {x \in {"none", "IOError", "UnicodeDecodeError"} \X BOOLEAN
                    \X Answers(AuthAsks(tokenFile, credsFile, drive, FALSE)) :
            /\ x[1] = "none" \/ settingsFile.exists
            /\ (IF x[1] # "none" THEN 1 ELSE 0) + (IF x[2] THEN 0 ELSE 1) + FaultCount(x[3])
                    <= Budget}

FactoryFaultCount(x) ==
    (IF x[1] # "none" THEN 1 ELSE 0) + (IF x[2] THEN 0 ELSE 1) + FaultCount(x[3])

\* get_storage_manager()
GetStorageManager ==
    /\ current_storage_manager.kind # "none" \/ instances + 2 <= MaxStores
    /\ \E x \in FactoryAnswers(current_storage_manager.kind = "none") :
       \E g \in {get_storage_manager(current_storage_manager, instances, settingsFile,
                                     tokenFile, credsFile, drive, x[1], x[2], x[3])} :
              /\ current_storage_manager' = g.cur
              /\ instances' = g.n
              /\ tokenFile' = g.tok
              /\ drive' = g.drive
              /\ faults' = faults + FactoryFaultCount(x)
              /\ last' = [op |-> "get", force |-> FALSE, ret |-> g.ret, read |-> g.read,
                          settings |-> g.settings, mode |-> g.mode, auth |-> g.auth,
                          built |-> g.n - instances, was |-> current_storage_manager]
    /\ UNCHANGED <<threads, file, now, file0, credsFile, settingsFile, calls>>

\* initialize_storage_manager(force_reinit)
InitializeStorageManager ==
    /\ \E force \in BOOLEAN :
          /\ (current_storage_manager.kind # "none" /\ ~force) \/ instances + 2 <= MaxStores
          /\ \E x \in FactoryAnswers(current_storage_manager.kind = "none" \/ force) :
             \E i \in {initialize_storage_manager(current_storage_manager, instances,
                          settingsFile, tokenFile, credsFile, drive, force,
                          x[1], x[2], x[3])} :
              /\ current_storage_manager' = i.cur
              /\ instances' = i.n
              /\ tokenFile' = i.tok
              /\ drive' = i.drive
              /\ faults' = faults + FactoryFaultCount(x)
              /\ last' = [op |-> "initialize", force |-> force, ret |-> i.ret,
                          read |-> i.read, settings |-> i.settings, mode |-> i.mode,
                          auth |-> i.auth, built |-> i.n - instances,
                          was |-> current_storage_manager]
    /\ UNCHANGED <<threads, file, now, file0, credsFile, settingsFile, calls>>

NextFactory == GetStorageManager \/ InitializeStorageManager \/ EditSettings

SpecFactory == InitFactory /\ [][NextFactory]_vars

\* ------------------------------------- a local store is built (SpecLocal)
\* the storage_path arguments callers pass: none, the empty text, an
\* absolute path, a relative one, and paths holding ".."
StoragePaths ==
    {None, Str(<<>>), Str(<<"/", "data">>), Str(<<"data", "/", "h">>),
     Str(<<"/", "data", "/", "..", "/", "etc">>), Str(<<"..", "/", "h">>)}

InitLocal ==
    /\ current_storage_manager = NoManager
    /\ file = Absent
    /\ file0 = Absent
    /\ now = 0
    /\ tokenFile = "absent"
    /\ credsFile = FALSE
    /\ drive = EmptyDrive
    /\ settingsFile = Absent
    /\ instances = 0
    /\ calls = <<>>
    /\ faults = 0
    /\ threads = NoThreads
    /\ last = [op |-> "init"]

\* LocalStorageManager(filename, storage_path); file: the history file found
\* in the directory the store settles on
ConstructLocal ==
    /\ current_storage_manager.kind = "none"
    /\ \E p \in StoragePaths, resolveOk \in BOOLEAN :
          /\ resolveOk \/ (Truthy(p) /\ faults < MaxFaults)
          /\ current_storage_manager' = LocalStorageManager(1, HISTORY_FILENAME, p, resolveOk)
          /\ faults' = faults + (IF resolveOk THEN 0 ELSE 1)
          /\ last' = [op |-> "construct", storage_path |-> p, resolveOk |-> resolveOk]
    /\ file' \in {Absent, OnDisk(OldEntryText)}
    /\ file0' = file'
    /\ instances' = 1
    /\ UNCHANGED <<threads, now, tokenFile, credsFile, drive, settingsFile, calls>>

NextLocal == ConstructLocal \/ LocalSave \/ LocalLoad

SpecLocal == InitLocal /\ [][NextLocal]_vars

\* ------------------- threads inside save_message of one store (SpecThreads)
InitThreads ==
    /\ current_storage_manager = LocalStorageManager(1, HISTORY_FILENAME, None, TRUE)
    /\ file \in {Absent, OnDisk(<<"[", "]">>), OnDisk(OldEntryText)}
    /\ file0 = file
    /\ now = 0
    /\ tokenFile = "absent"
    /\ credsFile = FALSE
    /\ drive = EmptyDrive
    /\ settingsFile = Absent
    /\ instances = 1
    /\ calls = <<>>
    /\ faults = 0
    /\ threads = NoThreads
    /\ last = [op |-> "init"]

\* the threads that have entered save_message and not yet left it
InSave == {u \in Threads : threads[u].pc \in {"entered", "loaded", "opened"}}

\* thread t enters save_message and builds the entry, with the
\* datetime.now() of this moment
SaveBegin(t) ==
    /\ current_storage_manager.kind = "local"
    /\ threads[t].pc = "idle"
    /\ Len(calls) < MaxSaves
    /\ \E in \in SaveInputs :
          /\ threads' =
                [u \in Threads |->
                    IF u = t
                    THEN [pc |-> "entered",
                          stamp |-> now + 1,
                          history |-> <<>>,
                          call |-> Len(calls) + 1,
                          written |-> FALSE,
                          overlapped |-> InSave # {}]
                    ELSE IF u \in InSave
                    THEN [threads[u] EXCEPT !.overlapped = TRUE]
                    ELSE threads[u]]
          /\ calls' = Append(calls, [sender |-> in[1], message |-> in[2]])
    /\ now' = now + 1
    /\ last' = [op |-> "save_begin", thread |-> t]
    /\ UNCHANGED <<current_storage_manager, file, file0, tokenFile, credsFile, drive,
                   settingsFile, instances, faults>>

\* thread t reads the file with _load_raw_history and appends its entry to
\* the list it got
SaveLoad(t) ==
    /\ threads[t].pc = "entered"
    /\ \E rf \in {"none"} \cup (IF Budget >= 1 /\ file.exists THEN {"IOError"} ELSE {}) :
       \E loaded \in {_load_raw_history(file, rf)} :
          /\ threads' =
                [threads EXCEPT
                    ![t].pc = IF loaded.exc = "none" THEN "loaded" ELSE "done",
                    ![t].history =
                        IF loaded.exc = "none"
                        THEN Append(loaded.val,
                                    Entry(threads[t].stamp,
                                          calls[threads[t].call].sender,
                                          calls[threads[t].call].message))
                        ELSE <<>>]
          /\ faults' = faults + (IF rf = "none" THEN 0 ELSE 1)
          /\ last' = [op |-> "save_load", thread |-> t, readFault |-> rf]
    /\ UNCHANGED <<current_storage_manager, file, now, file0, tokenFile, credsFile,
                   drive, settingsFile, instances, calls>>

\* thread t runs open(self.filepath, "w"): the file is truncated, or the
\* open raises IOError, which save_message logs
SaveOpen(t) ==
    /\ threads[t].pc = "loaded"
    /\ \E ok \in {TRUE} \cup (IF Budget >= 1 THEN {FALSE} ELSE {}) :
          /\ file' = IF ok THEN OnDisk(<<>>) ELSE file
          /\ threads' = [threads EXCEPT ![t].pc = IF ok THEN "opened" ELSE "done"]
          /\ faults' = faults + (IF ok THEN 0 ELSE 1)
          /\ last' = [op |-> "save_open", thread |-> t, writeFault |-> ~ok]
    /\ UNCHANGED <<current_storage_manager, now, file0, tokenFile, credsFile, drive,
                   settingsFile, instances, calls>>

\* thread t runs json.dump and leaves the with block: its text goes to the
\* file from offset 0, whole, or up to the point where the dump raises
SaveDump(t) ==
    /\ threads[t].pc = "opened"
    /\ \E cut \in {0} \cup (IF Budget >= 1 THEN {1, 2} ELSE {}) :
       \E text \in {JsonEncode(Arr(threads[t].history))} :
          /\ file' = WriteOver(file, IF cut = 0 THEN text
                                     ELSE SubSeq(text, 1, CutAt(text, cut)))
          /\ faults' = faults + (IF cut = 0 THEN 0 ELSE 1)
          /\ last' = [op |-> "save_dump", thread |-> t, writeFault |-> cut # 0]
          /\ threads' = [threads EXCEPT ![t].pc = "done", ![t].written = (cut = 0)]
    /\ UNCHANGED <<current_storage_manager, now, file0, tokenFile, credsFile, drive,
                   settingsFile, instances, calls>>

NextThreads ==
    \E t \in Threads : SaveBegin(t) \/ SaveLoad(t) \/ SaveOpen(t) \/ SaveDump(t)

SpecThreads == InitThreads /\ [][NextThreads]_vars

\* ------------- the main window and the threads it starts (SpecWindow)
\* a thread outside the factory; manager: the store its
\* initialize_storage_manager() returned; got: what its last call returned;
\* built: its last call ran the construction of a store
IdleCaller == [pc |-> "idle", manager |-> NoManager, got |-> NoManager, built |-> FALSE]

\* self.settings of the settings window when save_and_close calls
\* save_settings: the loaded dictionary, api_providers added when missing,
\* and the five values of the form, a text field that is empty or None
\* going back as None
WindowSettings(ps, mode, path) ==
    DictSet(
      DictSet(
        DictSet(
          DictSet(
            DictSet(IF Key("api_providers") \in DictKeys(ps) THEN ps
                    ELSE DictSet(ps, Key("api_providers"), Obj(<<>>)),
                    Key("storage_mode"), Str(mode)),
            Key("local_storage_path"), IF path # <<>> THEN Str(path) ELSE None),
          Key("llm_model_path"),
          IF Truthy(DictGetOr(ps, Key("llm_model_path"), None))
          THEN DictGet(ps, Key("llm_model_path")) ELSE None),
        Key("system_prompt_path"),
        IF Truthy(DictGetOr(ps, Key("system_prompt_path"), None))
        THEN DictGet(ps, Key("system_prompt_path")) ELSE None),
      Key("active_llm_provider"),
      DictGetOr(ps, Key("active_llm_provider"), Str(<<"local">>)))

\* the window is followed while the file system and the network answer
\* every call (the failures of a call are those of SpecFactory)
InitWindow ==
    /\ current_storage_manager = NoManager
    /\ file = Absent
    /\ file0 = Absent
    /\ now = 0
    /\ tokenFile \in {"absent", "valid_rt"}
    /\ credsFile = FALSE
    /\ drive = [folders |-> <<1>>, files |-> <<RemoteFile(<<"[", "]">>)>>]
    /\ settingsFile \in {Absent, OnDisk(JsonEncode(Obj(LocalSettings))),
                         OnDisk(JsonEncode(Obj(CloudSettings)))}
    /\ instances = 0
    /\ calls = <<>>
    /\ faults = MaxFaults
    /\ threads = [t \in Threads |-> IdleCaller]
    /\ last = [op |-> "init"]

\* SettingsWindow.save_and_close: the form goes into self.settings,
\* save_settings writes it, and restart_backend_thread starts a thread on
\* _restart_backend_worker.  The settings window belongs to a main window,
\* whose __init__ got its store from get_storage_manager().
SaveAndClose ==
    /\ current_storage_manager.kind # "none"
    /\ \E t \in Threads, mode \in {<<"local">>, <<"google_drive">>},
          path \in {<<>>, <<"/", "data">>} :
       \E loaded \in {load_settings(settingsFile, "none")} :
          /\ threads[t].pc = "idle"
          /\ loaded.exc = "none"
          /\ \E settings \in {WindowSettings(loaded.val, mode, path)} :
                /\ settingsFile' = save_settings(settingsFile, settings, "none", 0)
                /\ last' = [op |-> "save_and_close", arg |-> settings]
          /\ threads' = [threads EXCEPT ![t] = [IdleCaller EXCEPT !.pc = "restart"]]
    /\ UNCHANGED <<current_storage_manager, file, now, file0, tokenFile, credsFile, drive,
                   instances, calls, faults>>

\* MainWindow._restart_backend_worker: self.storage_manager =
\* initialize_storage_manager(); an exception is caught by the worker
RestartBackendWorker(t) ==
    /\ threads[t].pc = "restart"
    /\ current_storage_manager.kind # "none" \/ instances + 2 <= MaxStores
    /\ \E x \in FactoryAnswers(current_storage_manager.kind = "none") :
       \E i \in {initialize_storage_manager(current_storage_manager, instances,
                    settingsFile, tokenFile, credsFile, drive, FALSE,
                    x[1], x[2], x[3])} :
          /\ current_storage_manager' = i.cur
          /\ instances' = i.n
          /\ tokenFile' = i.tok
          /\ drive' = i.drive
          /\ faults' = faults + FactoryFaultCount(x)
          /\ threads' = [threads EXCEPT ![t] =
                            [pc |-> "idle", manager |-> NoManager,
                             got |-> IF i.ret.exc = "none" THEN i.ret.val ELSE NoManager,
                             built |-> i.read]]
          /\ last' = [op |-> "restart_backend_worker", thread |-> t, ret |-> i.ret,
                      saved |-> load_settings(settingsFile, "none"),
                      was |-> current_storage_manager]
    /\ UNCHANGED <<file, now, file0, credsFile, settingsFile, calls>>

\* thread t calls get_storage_manager(): the test of the global; a store
\* that is there is returned
GetCheck(t) ==
    /\ threads[t].pc = "idle"
    /\ threads' = [threads EXCEPT ![t] =
                      IF current_storage_manager.kind = "none"
                      THEN [IdleCaller EXCEPT !.pc = "initialize"]
                      ELSE [IdleCaller EXCEPT !.got = current_storage_manager]]
    /\ last' = [op |-> "get_check", thread |-> t]
    /\ UNCHANGED <<current_storage_manager, file, now, file0, tokenFile, credsFile, drive,
                   settingsFile, instances, calls, faults>>

\* initialize_storage_manager() called by get_storage_manager: the test of
\* the global; a store that is there is returned
InitializeCheck(t) ==
    /\ threads[t].pc = "initialize"
    /\ threads' = [threads EXCEPT ![t] =
                      IF current_storage_manager.kind = "none"
                      THEN [threads[t] EXCEPT !.pc = "build"]
                      ELSE [threads[t] EXCEPT !.pc = "store",
                                              !.manager = current_storage_manager]]
    /\ last' = [op |-> "initialize_check", thread |-> t]
    /\ UNCHANGED <<current_storage_manager, file, now, file0, tokenFile, credsFile, drive,
                   settingsFile, instances, calls, faults>>

\* initialize_storage_manager() past the test: load_settings(), the store
\* is built, assigned to the global and returned; an exception ends the
\* thread's call
InitializeBuild(t) ==
    /\ threads[t].pc = "build"
    /\ instances + 2 <= MaxStores
    /\ \E x \in FactoryAnswers(TRUE) :
       \E i \in {InitWithSettings(current_storage_manager, instances, tokenFile, credsFile,
                                  drive, x[2], x[3], load_settings(settingsFile, x[1]))} :
          /\ current_storage_manager' = i.cur
          /\ instances' = i.n
          /\ tokenFile' = i.tok
          /\ drive' = i.drive
          /\ faults' = faults + FactoryFaultCount(x)
          /\ threads' = [threads EXCEPT ![t] =
                            IF i.ret.exc = "none"
                            THEN [pc |-> "store", manager |-> i.ret.val,
                                  got |-> NoManager, built |-> TRUE]
                            ELSE IdleCaller]
          /\ last' = [op |-> "initialize_build", thread |-> t, ret |-> i.ret]
    /\ UNCHANGED <<file, now, file0, credsFile, settingsFile, calls>>

\* get_storage_manager(): _current_storage_manager = <what initialize
\* returned>
GetStore(t) ==
    /\ threads[t].pc = "store"
    /\ current_storage_manager' = threads[t].manager
    /\ threads' = [threads EXCEPT ![t].pc = "return"]
    /\ last' = [op |-> "get_store", thread |-> t]
    /\ UNCHANGED <<file, now, file0, tokenFile, credsFile, drive, settingsFile, instances,
                   calls, faults>>

\* get_storage_manager(): return _current_storage_manager
GetReturn(t) ==
    /\ threads[t].pc = "return"
    /\ threads' = [threads EXCEPT ![t].pc = "idle", ![t].got = current_storage_manager]
    /\ last' = [op |-> "get_return", thread |-> t]
    /\ UNCHANGED <<current_storage_manager, file, now, file0, tokenFile, credsFile, drive,
                   settingsFile, instances, calls, faults>>

NextWindow ==
    \/ SaveAndClose
    \/ \E t \in Threads :
          \/ RestartBackendWorker(t)
          \/ GetCheck(t)
          \/ InitializeCheck(t)
          \/ InitializeBuild(t)
          \/ GetStore(t)
          \/ GetReturn(t)

SpecWindow == InitWindow /\ [][NextWindow]_vars

\* ------------------------------------------------------------- properties
\* the list a load of file f yields when the read itself succeeds
Stored(f) == _load_raw_history(f, "none").val

IsPrefix(xs, ys) == Len(xs) <= Len(ys) /\ SubSeq(ys, 1, Len(xs)) = xs

HistoryKeys == {Key("timestamp"), Key("sender"), Key("message")}

OnLocalStore == current_storage_manager.kind = "local"
OnDriveStore == current_storage_manager.kind = "gdrive"

\* the content of text reads as "no history"
NoHistoryIn(exists, text) ==
    \/ ~exists
    \/ IsBlank(text)
    \/ ~JsonLoads(text).ok
    \/ JsonLoads(text).val.t # "arr"

\* C1: on a local store whose history file did not exist at construction,
\* and with no I/O failure so far, a load_history() after the save_message
\* calls returns as many entries as there were calls; entry i is an object
\* holding the sender and message of call i unchanged, and a timestamp
\* string.
C1_RoundTrip ==
    (OnLocalStore /\ file0 = Absent /\ faults = 0 /\ last.op = "load") =>
        /\ last.ret.exc = "none"
        /\ Len(last.ret.val) = Len(calls)
        /\ \A i \in 1..Len(calls) :
              /\ last.ret.val[i].t = "obj"
              /\ HistoryKeys \subseteq DictKeys(last.ret.val[i].v)
              /\ DictGet(last.ret.val[i].v, Key("sender")) = Str(calls[i].sender)
              /\ DictGet(last.ret.val[i].v, Key("message")) = Str(calls[i].message)
              /\ DictGet(last.ret.val[i].v, Key("timestamp")).t = "str"
              /\ DictGet(last.ret.val[i].v, Key("timestamp")).v # <<>>

\* two different messages saved to a fresh file, then loaded
C1_Witness ==
    /\ OnLocalStore /\ file0 = Absent /\ faults = 0 /\ last.op = "load"
    /\ Len(calls) = 2
    /\ calls[1] # calls[2]

\* C2: the stored history is append-only: the list a local store holds
\* before a save_message is a prefix of the list it holds after it, so no
\* entry is lost, changed or moved and the list never gets shorter, also
\* when the read or the write inside save_message fails.
C2_AppendOnly ==
    (OnLocalStore /\ last.op = "save") => IsPrefix(Stored(last.before), Stored(file))

\* a save whose read of the file failed, on a file that held an entry
C2_Witness ==
    /\ OnLocalStore /\ last.op = "save"
    /\ last.readFault = "IOError"
    /\ Len(Stored(last.before)) = 1
    /\ Len(Stored(file)) = 1
    /\ Stored(file) # Stored(last.before)

\* C3: load_history() of either store never raises; it returns the empty
\* list when the backing content is absent, blank, not valid JSON or not a
\* JSON array, and the parsed list when the content is a JSON array that
\* the store could read.  For the Drive store the content is that of the
\* remote file the store has resolved.
C3_LoadNeverRaises ==
    /\ (OnLocalStore /\ last.op = "load") =>
          /\ last.ret.exc = "none"
          /\ IF NoHistoryIn(last.before.exists, last.before.text)
             THEN last.ret.val = <<>>
             ELSE last.readFault = "none" =>
                    last.ret.val = JsonLoads(last.before.text).val.v
    /\ (OnDriveStore /\ last.op = "load") =>
          /\ last.ret.exc = "none"
          /\ IF \/ ~current_storage_manager.service
                \/ current_storage_manager.file_id = 0
                \/ DriveFile(drive, current_storage_manager.file_id) = <<>>
             THEN last.ret.val = <<>>
             ELSE IF NoHistoryIn(TRUE,
                        DriveFile(drive, current_storage_manager.file_id)[1].content)
             THEN last.ret.val = <<>>
             ELSE last.download =>
                    last.ret.val =
                        JsonLoads(DriveFile(drive,
                                    current_storage_manager.file_id)[1].content).val.v

\* a local load of "{}" and of the old entry, and a Drive load of text that
\* is not JSON
C3_Witness ==
    /\ last.op = "load"
    /\ \/ /\ OnLocalStore
          /\ last.before = OnDisk(<<"{", "}">>)
          /\ last.ret = Ret(<<>>)
       \/ /\ OnLocalStore
          /\ last.before = OnDisk(OldEntryText)
          /\ last.ret = Ret(<< Obj(<< <<Key("sender"), Str(<<"Old">>)>>,
                                      <<Key("message"), Str(<<"Msg">>)>> >>) >>)
       \/ /\ OnDriveStore
          /\ current_storage_manager.file_id = 2
          /\ drive.files[1].content = <<"not", " ", "json">>
          /\ last.ret = Ret(<<>>)

FactoryCall == last.op \in {"initialize", "get"}

\* C4: when cloud mode is configured and authenticate() returns False
\* inside initialize_storage_manager, the call returns normally; what it
\* returns is the installed store, a LocalStorageManager built with the
\* configured history filename and the configured local_storage_path.
C4_FallbackLocal ==
    (FactoryCall /\ last.mode = "google_drive" /\ last.auth = "false") =>
        /\ last.ret.exc = "none"
        /\ last.ret.val = current_storage_manager
        /\ current_storage_manager.kind = "local"
        /\ current_storage_manager.filename = Setting(last.settings, "history_filename").v
        /\ current_storage_manager.storage_path = Setting(last.settings, "local_storage_path")
        /\ current_storage_manager.filepath =
              HistoryDir(Setting(last.settings, "local_storage_path"), TRUE)
                  \o <<"/">> \o Setting(last.settings, "history_filename").v
           \/ current_storage_manager.filepath =
              HistoryDir(None, TRUE) \o <<"/">> \o Setting(last.settings, "history_filename").v

\* a fallback with a custom local path and file name configured
C4_Witness ==
    /\ FactoryCall /\ last.mode = "google_drive" /\ last.auth = "false"
    /\ current_storage_manager.kind = "local"
    /\ current_storage_manager.storage_path = Str(<<"/", "data">>)
    /\ current_storage_manager.filename = <<"h", ".json">>

\* C5: every store initialize_storage_manager returns is a working sink:
\* a LocalStorageManager, or a GoogleDriveStorageManager that holds a
\* service handle and a resolved remote file id; authenticate() returning
\* True during initialization implies the file id was resolved.
C5_WorkingSink ==
    (FactoryCall /\ last.ret.exc = "none") =>
        /\ \/ last.ret.val.kind = "local"
           \/ /\ last.ret.val.kind = "gdrive"
              /\ last.ret.val.service
              /\ last.ret.val.file_id # 0
        /\ last.auth = "true" => last.ret.val.file_id # 0

\* authenticate() returned True and the installed Drive store has no file id
C5_Witness ==
    /\ FactoryCall /\ last.ret.exc = "none" /\ last.auth = "true"
    /\ current_storage_manager.kind = "gdrive"
    /\ current_storage_manager.service
    /\ current_storage_manager.file_id = 0

\* C6: a get_storage_manager() call that finds a store installed builds
\* nothing, reads no settings, and returns that store, which stays
\* installed; a call that finds none initializes, and what it returns is the
\* store it installed.  So across calls with no forced re-initialization one
\* store is initialized and every call returns it.
C6_SingleInstance ==
    (last.op = "get") =>
        /\ last.was.kind # "none" =>
              /\ last.ret = Ret(last.was)
              /\ current_storage_manager = last.was
              /\ last.built = 0
              /\ ~last.read
        /\ last.ret.exc = "none" =>
              /\ last.ret.val = current_storage_manager
              /\ current_storage_manager.kind # "none"

\* a get_storage_manager() call on an installed store
C6_Witness ==
    /\ last.op = "get"
    /\ last.was.kind # "none"
    /\ last.ret = Ret(last.was)

\* C7: initialize_storage_manager(force_reinit=False) on an installed store
\* returns it without reading settings or building a store;
\* initialize_storage_manager(force_reinit=True) always reads the settings,
\* builds a new store, installs it and returns it.
C7_ForceReinit ==
    (last.op = "initialize") =>
        /\ (~last.force /\ last.was.kind # "none") =>
              /\ last.ret = Ret(last.was)
              /\ current_storage_manager = last.was
              /\ last.built = 0
              /\ ~last.read
        /\ last.force =>
              /\ last.read
              /\ last.ret.exc = "none"
              /\ last.built >= 1
              /\ last.ret.val = current_storage_manager
              /\ current_storage_manager.id > last.was.id

\* a forced re-initialization that raised and left the old store installed
C7_Witness ==
    /\ last.op = "initialize" /\ last.force
    /\ last.was.kind # "none"
    /\ last.ret.exc # "none"
    /\ current_storage_manager = last.was

\* the settings file load_settings() read holds a JSON object
ReadAnObject ==
    /\ last.op = "load_settings"
    /\ last.before.exists
    /\ last.readFault = "none"
    /\ JsonLoads(last.before.text).ok
    /\ JsonLoads(last.before.text).val.t = "obj"

FileSettings == JsonLoads(last.before.text).val.v

\* the file gives google_drive_token_file no value, or a string
TokenFileIsText ==
    Key("google_drive_token_file") \in DictKeys(FileSettings) =>
        DictGet(FileSettings, Key("google_drive_token_file")).t = "str"

\* the file names a token file ending in ".pickle"
NamesPickle ==
    /\ Key("google_drive_token_file") \in DictKeys(FileSettings)
    /\ DictGet(FileSettings, Key("google_drive_token_file")).t = "str"
    /\ EndsWith(DictGet(FileSettings, Key("google_drive_token_file")).v, <<".pickle">>)

\* every default key the file does not hold keeps its default
DefaultsKept ==
    \A k \in DictKeys(default_settings) \ DictKeys(FileSettings) :
        /\ k \in DictKeys(last.ret.val)
        /\ DictGet(last.ret.val, k) = DictGet(default_settings, k)

C9_NeverRaises ==
    (last.op = "load_settings") =>
        /\ last.ret.exc = "none"
        /\ DictKeys(default_settings) \subseteq DictKeys(last.ret.val)
        /\ (~ReadAnObject \/ ~TokenFileIsText) => last.ret.val = default_settings

\* load_settings() raised on a file that holds a JSON array
C9_Witness ==
    /\ last.op = "load_settings"
    /\ last.before = OnDisk(<<"[", "1", "]">>)
    /\ last.readFault = "none"
    /\ last.ret.exc = "TypeError"

\* what one authenticate() call met
FlowNeeded == last.force \/ last.tok \in {"absent", "corrupt", "expired_nort"}

RefreshFailed == ~last.force /\ last.tok = "expired_rt" /\ ~last.r.refresh

FlowFailed ==
    FlowNeeded /\ (~credsFile \/ last.r.flow \in {"FileNotFoundError", "OAuthError"})

TokenUnreadable == ~last.force /\ last.tok = "corrupt"

\* C10 as stated: authenticate() never raises, and each of the failures
\* returns False: an unreadable token file, a failed refresh, a missing
\* client-secret file, an error in the interactive flow, a failure to build
\* the service.
C10_AuthenticateAsStated ==
    (OnDriveStore /\ last.op = "authenticate") =>
        /\ last.ret.exc = "none"
        /\ last.ret.val \in BOOLEAN
        /\ (TokenUnreadable \/ RefreshFailed \/ FlowFailed \/ ~last.r.build) =>
              last.ret.val = FALSE

\* C10: authenticate() never raises and returns a boolean; it returns False
\* when the refresh fails, when the interactive flow is needed and the
\* client-secret file is missing or the flow fails, and when the service
\* cannot be built.  An unreadable token file only makes the flow needed:
\* when the flow and the build then succeed, authenticate() returns True.
C10_Authenticate ==
    (OnDriveStore /\ last.op = "authenticate") =>
        /\ last.ret.exc = "none"
        /\ last.ret.val \in BOOLEAN
        /\ (RefreshFailed \/ FlowFailed \/ ~last.r.build) => last.ret.val = FALSE
        /\ (TokenUnreadable /\ ~FlowFailed /\ last.r.build) =>
              (last.flowRun /\ last.ret.val = TRUE)

\* the interactive flow raised, and authenticate() returned False; and an
\* unreadable token file followed by a flow that succeeded
C10_Witness ==
    /\ OnDriveStore /\ last.op = "authenticate"
    /\ \/ /\ FlowNeeded /\ credsFile /\ last.r.flow = "OAuthError"
          /\ last.ret = Ret(FALSE)
       \/ /\ TokenUnreadable /\ last.flowRun
          /\ last.ret = Ret(TRUE)

\* the Drive store is built from the settings the call loaded
BuiltFromSettings(m, ps) ==
    /\ m.kind = "gdrive"
    /\ m.credentials_path = Setting(ps, "google_drive_credentials_file").v
    /\ m.token_path = USER_CONFIG_DIR \o <<"/">> \o Setting(ps, "google_drive_token_file").v
    /\ m.filename = Setting(ps, "history_filename").v
    /\ m.folder_name = Setting(ps, "google_drive_folder_name").v

LoadedLocalMode ==
    /\ FactoryCall /\ last.read /\ last.ret.exc = "none"
    /\ Setting(last.settings, "storage_mode") # Str(<<"google_drive">>)

\* C12: when the loaded storage_mode is "local" or any value other than
\* "google_drive", an initialization builds exactly one store, a
\* LocalStorageManager holding the configured history_filename and
\* local_storage_path, installs and returns it, calls authenticate() on
\* nothing, and leaves the token file and the Drive as they were.
C12_LocalBranch ==
    [][LoadedLocalMode' =>
          /\ last'.mode = "local"
          /\ last'.auth = "none"
          /\ last'.built = 1
          /\ last'.ret = Ret(current_storage_manager')
          /\ current_storage_manager'.kind = "local"
          /\ current_storage_manager'.filename = Setting(last'.settings, "history_filename").v
          /\ current_storage_manager'.storage_path
                = Setting(last'.settings, "local_storage_path")
          /\ tokenFile' = tokenFile
          /\ drive' = drive]_vars

\* an unknown storage_mode with a custom path and filename, while a token
\* that a cloud store would refresh lies on disk
C12_Witness ==
    /\ LoadedLocalMode
    /\ Setting(last.settings, "storage_mode") = Str(<<"dropbox">>)
    /\ current_storage_manager.kind = "local"
    /\ current_storage_manager.filename = <<"h", ".json">>
    /\ tokenFile = "expired_rt"

\* the default directory under the user's home
DefaultHistoryDir == USER_CONFIG_DIR \o <<"/", "history">>

Constructed == last.op = "construct" /\ current_storage_manager.kind = "local"

HasDotDot(p) == \E i \in 1..Len(p) : p[i] = ".."

\* C13 as stated: a store built with a custom path whose resolution
\* succeeds has exactly the resolved path as its history directory, and the
\* default directory is used only when no path is supplied or resolution
\* fails.
C13_HistoryDirAsStated ==
    Constructed =>
        /\ (last.storage_path.t = "str" /\ last.storage_path.v # <<>> /\ last.resolveOk)
              => current_storage_manager.history_dir = Resolve(last.storage_path.v)
        /\ current_storage_manager.history_dir = DefaultHistoryDir
              => (~Truthy(last.storage_path) \/ ~last.resolveOk)

\* C13: a store built with a custom path that holds no ".." and whose
\* resolution succeeds has exactly the resolved path as its history
\* directory; a store built with no path, an empty path, a path holding
\* "..", or a path whose resolution fails has the default directory; the
\* history file lies in that directory under the given filename.
C13_HistoryDir ==
    Constructed =>
        /\ current_storage_manager.history_dir =
              IF Truthy(last.storage_path) /\ last.resolveOk
                    /\ ~HasDotDot(last.storage_path.v)
              THEN Resolve(last.storage_path.v)
              ELSE DefaultHistoryDir
        /\ current_storage_manager.filepath =
              current_storage_manager.history_dir \o <<"/">> \o HISTORY_FILENAME

\* a relative custom path was resolved and is the history directory
C13_Witness ==
    /\ Constructed
    /\ last.storage_path = Str(<<"data", "/", "h">>)
    /\ last.resolveOk
    /\ current_storage_manager.history_dir = <<"/", "cwd", "/", "data", "/", "h">>

TokenFileKey == Key("google_drive_token_file")

\* dictionary ps names a token file ending in ".pickle"
PickleIn(ps) ==
    /\ TokenFileKey \in DictKeys(ps)
    /\ DictGet(ps, TokenFileKey).t = "str"
    /\ EndsWith(DictGet(ps, TokenFileKey).v, <<".pickle">>)

\* what save_settings is to write for a dictionary naming a ".pickle" file
FixedText(ps) == JsonEncode(Obj(DictSet(ps, TokenFileKey, Str(TOKEN_JSON))))

\* C14: the token-file setting never names a ".pickle" file after the
\* settings layer: a load_settings() that returns yields a token file name
\* that does not end in ".pickle", and yields "token.json" when the file
\* named a ".pickle" file and on the error paths (read failure, invalid
\* JSON); save_settings given a ".pickle" name writes the dictionary with
\* "token.json" in its place, or a prefix of that text when the dump fails,
\* or nothing when the file cannot be opened; GoogleDriveStorageManager
\* given a ".pickle" token_file uses "token.json" under the user
\* configuration directory, and any other name as given.
C14_NoPickle ==
    /\ (last.op = "load_settings" /\ last.ret.exc = "none") =>
          /\ ~PickleIn(last.ret.val)
          /\ DictGet(last.ret.val, TokenFileKey).t = "str"
          /\ (ReadAnObject /\ NamesPickle) =>
                DictGet(last.ret.val, TokenFileKey) = Str(TOKEN_JSON)
          /\ (last.before.exists /\ (last.readFault # "none" \/ ~JsonLoads(last.before.text).ok))
                => DictGet(last.ret.val, TokenFileKey) = Str(TOKEN_JSON)
    /\ (last.op = "save_settings" /\ PickleIn(last.arg)) =>
          CASE last.writeFault = "none" ->
                  /\ last.after = OnDisk(FixedText(last.arg))
                  /\ JsonLoads(last.after.text).ok
                  /\ DictGet(JsonLoads(last.after.text).val.v, TokenFileKey) = Str(TOKEN_JSON)
            [] last.writeFault = "open" -> last.after = last.before
            [] OTHER -> last.after.exists /\ IsPrefix(last.after.text, FixedText(last.arg))
    /\ last.op = "construct_drive" =>
          current_storage_manager.token_path =
              USER_CONFIG_DIR \o <<"/">> \o
                  (IF EndsWith(last.token_file, <<".pickle">>) THEN TOKEN_JSON
                   ELSE last.token_file)

\* a dictionary naming old_token.pickle was saved and the file now names
\* token.json
C14_Witness ==
    /\ last.op = "save_settings" /\ PickleIn(last.arg) /\ last.writeFault = "none"
    /\ DictGet(last.arg, TokenFileKey) = Str(<<"old_token", ".pickle">>)
    /\ settingsFile = last.after
    /\ DictGet(JsonLoads(settingsFile.text).val.v, TokenFileKey) = Str(TOKEN_JSON)

AllDone == \A t \in Threads : threads[t].pc = "done"

Serialized == \A t \in Threads : ~threads[t].overlapped

\* the entry of the i-th save_message call
EntryOf(i) == Entry(i, calls[i].sender, calls[i].message)

Holds(history, entry) == \E j \in 1..Len(history) : history[j] = entry

\* C15: save_message calls that the caller serializes (no thread enters
\* save_message while another is inside it) keep every entry: once all
\* calls have returned, the stored history holds the entry of each call
\* whose own write went through.  (That concurrent calls can lose an entry
\* is the reachable state C15_Witness.)
C15_SerializedKeepAll ==
    (AllDone /\ Serialized) =>
        \A t \in Threads :
            threads[t].written => Holds(Stored(file), EntryOf(threads[t].call))

\* two threads were inside save_message together, no I/O operation failed,
\* and the stored history is the old entry followed by the entry of one of
\* the two calls only
C15_Witness ==
    /\ AllDone /\ ~Serialized /\ faults = 0
    /\ file0 = OnDisk(OldEntryText)
    /\ \E i \in {1, 2} : Stored(file) = Append(Stored(file0), EntryOf(i))

\* a save_message on the Drive store reached its download, and the
\* download failed
DownloadFailedInSave ==
    OnDriveStore /\ last.op = "save" /\ last.ready /\ ~last.download

\* C16: when the download of the remote content fails inside
\* GoogleDriveStorageManager.save_message, the save is aborted: every
\* remote file that existed before the call keeps its content, and a file
\* created during the call holds the empty array it was created with, so
\* nothing was uploaded and no entry was recorded.
C16_DownloadFailAborts ==
    DownloadFailedInSave =>
        \A i \in 1..Len(drive.files) :
            drive.files[i].content =
                IF i <= Len(last.driveBefore.files)
                THEN last.driveBefore.files[i].content
                ELSE <<"[", "]">>

\* the download failed in a save on a remote history holding one old entry,
\* and the remote file now holds something else
C16_Witness ==
    /\ DownloadFailedInSave
    /\ last.driveBefore.files # <<>>
    /\ last.driveBefore.files[1].content = OldEntryText
    /\ drive.files[1].content # OldEntryText

AuthenticateCall == OnDriveStore /\ last.op = "authenticate"

FlowSucceeds == last.r.flow \in {"ok_rt", "ok_nort"}

\* C17: when the token file holds an expired credential with a refresh
\* token and the refresh fails, the same authenticate() call goes on to the
\* interactive flow (the client-secret file being there), and returns True
\* when the flow and the service build succeed.
C17_RefreshFailRunsFlow ==
    (AuthenticateCall /\ RefreshFailed /\ credsFile) =>
        /\ last.flowRun
        /\ (FlowSucceeds /\ last.r.build) => last.ret = Ret(TRUE)

\* the refresh failed, the client-secret file is there and the flow would
\* have succeeded, and authenticate() returned False without running it
C17_Witness ==
    /\ AuthenticateCall /\ RefreshFailed /\ credsFile
    /\ FlowSucceeds /\ last.r.build
    /\ ~last.flowRun
    /\ last.ret = Ret(FALSE)

\* C18: whenever the interactive flow completes inside authenticate() (and
\* the write of the token file does not fail), the token file holds the
\* credential the flow handed out when authenticate() returns, so the next
\* call loads a valid credential and needs no flow.
C18_FlowPersists ==
    (AuthenticateCall /\ last.flowRun /\ FlowSucceeds /\ last.r.tokenWrite = "ok") =>
        last.tokAfter = TokenOf(FlowCreds(last.r.flow))

\* the token file was unreadable, the flow handed out a credential with a
\* refresh token, authenticate() returned True, and the token file is still
\* unreadable
C18_Witness ==
    /\ AuthenticateCall /\ last.flowRun /\ FlowSucceeds /\ last.r.tokenWrite = "ok"
    /\ last.tok = "corrupt"
    /\ last.ret = Ret(TRUE)
    /\ last.tokAfter = "corrupt"

RefreshSucceeded == ~last.force /\ last.tok = "expired_rt" /\ last.r.refresh

\* C19: when the token file holds an expired credential with a refresh
\* token and the refresh succeeds, authenticate() runs no interactive flow,
\* overwrites the token file with the refreshed (valid) credential unless
\* that write fails, and returns True with self.service set unless the
\* service cannot be built.
C19_RefreshSuccess ==
    (AuthenticateCall /\ RefreshSucceeded) =>
        /\ ~last.flowRun
        /\ last.r.tokenWrite = "ok" => last.tokAfter = "valid_rt"
        /\ last.r.build =>
              /\ last.ret = Ret(TRUE)
              /\ current_storage_manager.service

\* an expired credential was refreshed: valid token on disk, True returned
C19_Witness ==
    /\ AuthenticateCall /\ RefreshSucceeded
    /\ last.r.tokenWrite = "ok" /\ last.r.build
    /\ last.tokAfter = "valid_rt"
    /\ last.ret = Ret(TRUE)
    /\ current_storage_manager.service

\* C20: when the refresh of an expired credential fails, authenticate()
\* deletes the token file (unless the unlink itself fails); an
\* authenticate() call that comes next then starts without a token, loads
\* no stale credential, and runs the interactive flow when the
\* client-secret file is there and can be read.
C20_RefreshFailDeletes ==
    AuthenticateCall =>
        /\ (RefreshFailed /\ last.r.unlink) => last.tokAfter = "absent"
        /\ last.afterFailedRefresh = "deleted" =>
              /\ last.tok = "absent"
              /\ (credsFile /\ last.r.flow # "FileNotFoundError") => last.flowRun
              /\ (credsFile /\ FlowSucceeds /\ last.r.build) => last.ret = Ret(TRUE)

\* the call after a failed refresh found no token file and ran the flow
C20_Witness ==
    /\ AuthenticateCall
    /\ last.afterFailedRefresh = "deleted" /\ ~last.force
    /\ last.tok = "absent"
    /\ last.flowRun
    /\ last.ret = Ret(TRUE)

DriveCall == OnDriveStore /\ last.op \in {"save", "load"}

\* the remote files that existed before the call hold what they held, and a
\* file created during the call holds the empty array
NothingUploaded ==
    \A i \in 1..Len(drive.files) :
        drive.files[i].content =
            IF i <= Len(last.driveBefore.files)
            THEN last.driveBefore.files[i].content
            ELSE <<"[", "]">>

\* C21: a save_message or load_history on the Drive store calls
\* authenticate() at most once, and exactly when the service handle or the
\* file id is missing at entry; the call returns without an exception, and
\* when the session is still incomplete after that one pass it gives up: a
\* save uploads nothing and a load returns the empty list.
C21_OneAuthPass ==
    DriveCall =>
        /\ last.authCalls \in {0, 1}
        /\ (last.authCalls = 1) <=> ~last.wasReady
        /\ last.ret.exc = "none"
        /\ ~last.ready =>
              /\ last.op = "save" => NothingUploaded
              /\ last.op = "load" => last.ret = Ret(<<>>)

\* a save on a store without session authenticated once, could not get a
\* session, and gave up
C21_Witness ==
    /\ DriveCall /\ last.op = "save"
    /\ ~last.wasReady /\ last.authCalls = 1
    /\ ~last.ready
    /\ NothingUploaded

\* the list a download of file file_id yields on Drive drv when the download
\* itself works; no such file: the empty list
RemoteStored(drv, file_id) ==
    IF DriveFile(drv, file_id) = <<>> THEN <<>>
    ELSE DownloadHandlers(DownloadBody(DriveFile(drv, file_id), AllOk)).val

\* a save_message on the Drive store that had a session, downloaded and
\* uploaded
SavedToDrive == DriveCall /\ last.op = "save" /\ last.ready /\ last.download /\ last.upload

\* C22: after a save_message on the Drive store that went through, the
\* remote file holds the history it held before the call (the empty list
\* when the call created the file) with the one new entry appended at the
\* end, and a load_history() that follows and downloads returns exactly
\* that list.
C22_DriveAppend ==
    [][/\ SavedToDrive' =>
             RemoteStored(drive', current_storage_manager'.file_id) =
                 Append(RemoteStored(last'.driveBefore, current_storage_manager'.file_id),
                        Entry(now', calls'[Len(calls')].sender, calls'[Len(calls')].message))
       /\ (SavedToDrive /\ last'.op = "load" /\ last'.download) =>
             last'.ret = Ret(Append(RemoteStored(last.driveBefore,
                                                 current_storage_manager.file_id),
                                    Entry(now, calls[Len(calls)].sender,
                                          calls[Len(calls)].message)))]_vars

\* a second entry was appended to a remote history, after the old entry
C22_Witness ==
    /\ SavedToDrive
    /\ RemoteStored(last.driveBefore, current_storage_manager.file_id) # <<>>
    /\ Len(RemoteStored(drive, current_storage_manager.file_id)) =
          Len(RemoteStored(last.driveBefore, current_storage_manager.file_id)) + 1

\* an authenticate() or load_history() call created the remote history file
CreatedRemoteFile ==
    /\ OnDriveStore /\ last.op \in {"authenticate", "load"}
    /\ Len(drive.files) > Len(last.driveBefore.files)

\* C23: when _ensure_file_exists finds no history file in the folder and
\* creates one, the new file holds `[]` and lies in the resolved folder,
\* the store records its id, and a load_history() that comes next (or the
\* load_history() that created it) returns the empty list without an
\* exception.
C23_CreatedEmpty ==
    [][/\ CreatedRemoteFile' =>
             /\ Len(drive'.files) = Len(last'.driveBefore.files) + 1
             /\ drive'.files[Len(drive'.files)].content = <<"[", "]">>
             /\ drive'.files[Len(drive'.files)].parent = drive'.folders[1]
             /\ current_storage_manager'.file_id = drive'.files[Len(drive'.files)].id
             /\ RemoteStored(drive', current_storage_manager'.file_id) = <<>>
             /\ last'.op = "load" => last'.ret = Ret(<<>>)
       /\ (CreatedRemoteFile /\ last'.op = "load") => last'.ret = Ret(<<>>)]_vars

\* authenticate() found the folder without a history file and created one
C23_Witness ==
    /\ CreatedRemoteFile /\ last.op = "authenticate"
    /\ last.driveBefore.folders # <<>>
    /\ last.driveBefore.files = <<>>
    /\ current_storage_manager.file_id # 0
    /\ last.ret = Ret(TRUE)

\* C24: resolving the remote folder and file is idempotent in sequential
\* use: in every step a folder is created only when the Drive holds none,
\* a file only when the first folder holds none, at most one of each at a
\* time and nothing that exists is removed; a resolved file id is the id of
\* the first file in the first folder, and it stays the same from one
\* resolution to the next.
C24_ResolveIdempotent ==
    [][/\ IsPrefix(drive.folders, drive'.folders)
       /\ Len(drive'.folders) <= Len(drive.folders) + 1
       /\ Len(drive'.folders) > Len(drive.folders) => drive.folders = <<>>
       /\ Len(drive'.files) >= Len(drive.files)
       /\ Len(drive'.files) <= Len(drive.files) + 1
       /\ Len(drive'.files) > Len(drive.files) =>
             /\ drive'.folders # <<>>
             /\ FilesIn(drive, drive'.folders[1]) = <<>>
       /\ (OnDriveStore /\ current_storage_manager'.file_id # 0) =>
             /\ drive'.folders # <<>>
             /\ FilesIn(drive', drive'.folders[1]) # <<>>
             /\ current_storage_manager'.file_id = FilesIn(drive', drive'.folders[1])[1].id
             /\ current_storage_manager.file_id # 0 =>
                   current_storage_manager'.file_id = current_storage_manager.file_id]_vars

\* a store that was resolved before authenticated again with success: it
\* created nothing and holds the same, first, file
C24_Witness ==
    /\ OnDriveStore /\ last.op = "authenticate"
    /\ last.wasReady
    /\ last.ret = Ret(TRUE)
    /\ drive = last.driveBefore
    /\ Len(drive.files) = 2
    /\ current_storage_manager.file_id = drive.files[1].id

\* C25: when authenticate() needs the interactive flow (no token file, an
\* unreadable one, an invalid credential without refresh token, or
\* force_reauth) and the client-secret file does not exist, it returns
\* False without launching the flow, leaves the token file as it was, and
\* creates no remote folder or file.
C25_FailFast ==
    (AuthenticateCall /\ FlowNeeded /\ ~credsFile) =>
        /\ last.ret = Ret(FALSE)
        /\ ~last.flowRun
        /\ last.tokAfter = last.tok
        /\ drive = last.driveBefore

\* an unreadable token file, no client-secret file, an empty Drive: False,
\* and everything as before
C25_Witness ==
    /\ AuthenticateCall /\ ~credsFile
    /\ last.tok = "corrupt" /\ ~last.force
    /\ last.ret = Ret(FALSE)
    /\ last.tokAfter = "corrupt"
    /\ drive = EmptyDrive

\* the datetime.now() an entry was built with; 0 for an entry that carries
\* no timestamp
StampOf(e) ==
    IF e.t = "obj" /\ Key("timestamp") \in DictKeys(e.v)
    THEN LET ts == {t \in 1..(MaxSaves + 1) :
                       DictGet(e.v, Key("timestamp")) = Str(IsoFormat(t))}
         IN  IF ts = {} THEN 0 ELSE CHOOSE t \in ts : TRUE
    ELSE 0

Chronological(history) ==
    \A i, j \in 1..Len(history) : i < j => StampOf(history[i]) <= StampOf(history[j])

\* C26: in every stored history the entries are in chronological order (no
\* entry is followed by one with an earlier timestamp), after any sequence
\* of save_message calls, also calls made from more than one thread.
C26_Chronological == Chronological(Stored(file))

\* two threads, no I/O failure: the stored history holds the entry of the
\* second call before the entry of the first
C26_Witness ==
    /\ AllDone /\ faults = 0 /\ Len(calls) = 2
    /\ file0 = OnDisk(<<"[", "]">>)
    /\ Stored(file) = <<EntryOf(2), EntryOf(1)>>

\* the store corresponds to the settings ps: the variant storage_mode names
\* (or the local store a failed authentication falls back to) and, for a
\* local store, the path local_storage_path names
FollowsSettings(m, ps) ==
    \/ /\ m.kind = "gdrive"
       /\ Setting(ps, "storage_mode") = Str(<<"google_drive">>)
    \/ /\ m.kind = "local"
       /\ m.storage_path = Setting(ps, "local_storage_path")

\* the restart worker ran to its assignment of self.storage_manager
Restarted == last.op = "restart_backend_worker" /\ last.ret.exc = "none"

\* C27: after the user saves settings and the main window's restart worker
\* has run, the store the window holds corresponds to the saved settings:
\* its variant to storage_mode and its path to local_storage_path.
C27_RestartFollowsSettings ==
    Restarted => FollowsSettings(last.ret.val, last.saved.val)

\* the saved settings name the local store at /data, and the window still
\* holds the store of before, a local store at the default path
C27_Witness ==
    /\ Restarted
    /\ Setting(last.saved.val, "storage_mode") = Str(<<"local">>)
    /\ Setting(last.saved.val, "local_storage_path") = Str(<<"/", "data">>)
    /\ last.ret.val = last.was
    /\ last.ret.val.kind = "local"
    /\ last.ret.val.storage_path = None

\* thread t is back from a call that returned a store
Returned(t) == threads[t].pc = "idle" /\ threads[t].got # NoManager

\* C28: threads that call get_storage_manager() while no active store
\* exists construct one store between them, and all of them receive the
\* same instance.
C28_OneStore ==
    /\ Cardinality({t \in Threads : threads[t].built}) <= 1
    /\ \A t, u \in Threads :
          (Returned(t) /\ Returned(u)) => threads[t].got = threads[u].got

\* both threads found the global empty, each built a store, and each
\* returned its own
C28_Witness ==
    /\ \A t \in Threads : Returned(t) /\ threads[t].built
    /\ threads["t1"].got # threads["t2"].got
    /\ current_storage_manager \in {threads["t1"].got, threads["t2"].got}

\* C29: after every authenticate() call the result and the session state
\* agree: True is returned only with a service handle set, and after False
\* the store holds no service handle, on every failure path.
C29_ResultMatchesSession ==
    AuthenticateCall =>
        /\ last.ret = Ret(TRUE) => current_storage_manager.service
        /\ last.ret = Ret(FALSE) => ~current_storage_manager.service

\* an authenticated store, force_reauth with no client-secret file: False
\* is returned and the service handle of before is still set
C29_Witness ==
    /\ AuthenticateCall /\ last.force /\ ~credsFile
    /\ last.wasReady
    /\ last.ret = Ret(FALSE)
    /\ current_storage_manager.service

\* C30: load_history() changes no stored history.  It leaves the local
\* history file as it is (absent stays absent); on the Drive store every
\* remote file keeps its content, and a file created by the authentication
\* pass of the call holds the empty array; and a load_history call that
\* directly follows another one returns the same list, when the I/O
\* operations of both calls went through.
C30_LoadChangesNothing ==
    [][last'.op = "load" =>
          /\ file' = file
          /\ Len(drive'.files) >= Len(drive.files)
          /\ \A i \in 1..Len(drive'.files) :
                drive'.files[i].content =
                    IF i <= Len(drive.files) THEN drive.files[i].content
                    ELSE <<"[", "]">>
          /\ (last'.prev.is /\ last'.prev.clean /\ last'.clean) =>
                last'.ret = last'.prev.ret]_vars

\* two loads in a row on the Drive store returned the one old entry, and
\* the remote file holds what it held
C30_Witness ==
    /\ OnDriveStore /\ last.op = "load"
    /\ last.prev.is /\ last.prev.clean /\ last.clean
    /\ last.ret = last.prev.ret
    /\ last.ret.exc = "none" /\ Len(last.ret.val) = 1
    /\ drive = last.driveBefore
    /\ drive.files[1].content = OldEntryText

====
